---- MODULE Spec2Model ----
(***************************************************************************)
(* A model of gogit's object retrieval: the pack index reader and its      *)
(* fanout/binary-search lookup, the pack object reader with offset-delta   *)
(* reconstruction, the loose object reader, and the repository facade      *)
(* (OpenRepository, getRawObject, Type, ObjectSize).                       *)
(*                                                                         *)
(* Files are modelled byte by byte.  A zlib stream cannot be inflated in   *)
(* TLA+, so a pack or loose file carries, next to its raw bytes, the       *)
(* inflated content of every zlib stream that starts in it.                *)
(* Unsigned 32/64-bit words that may exceed TLC's integers are kept as     *)
(* big-endian byte tuples (U64).                                           *)
(***************************************************************************)
EXTENDS Integers, Sequences, FiniteSets, TLC

VARIABLES
    disk,   \* the file system: the repository directory, its idx/pack files, loose objects
    repos,  \* the *Repository returned by the last successful OpenRepository, or Nil
    idx,    \* the *idxFile returned by the last successful direct readIdxFile, or Nil
    ret,    \* what the last completed call returned, with the trace of what it did
    calls,  \* the goroutines that run getRawObject at the same time: position and locals
    zlibReaderPool, \* the zlib readers that lie in the package's sync.Pool
    zreaders,       \* the zlib readers made so far: the file and stream each is set on
    fds             \* the files os.Open has opened so far, and whether each is still open

vars == <<disk, repos, idx, ret, calls, zlibReaderPool, zreaders, fds>>

\* what the calls that run one at a time leave alone
pooled == <<calls, zlibReaderPool, zreaders, fds>>

Nil == "nil"

\* a nil pointer, where the value would otherwise be a record
NilPtr == [nil |-> TRUE]

(***************************************************************************)
(* Bounds of the model.                                                    *)
(***************************************************************************)
\* most identifiers stored in one generated index file
MaxObjects == 3

(***************************************************************************)
(* Bytes and words.                                                        *)
(***************************************************************************)
\* type SHA1 [20]byte
IdLen == 20

Zeros(n) == [i \in 1..n |-> 0]

\* binary.BigEndian.Uint32 of the 4 bytes b[pos+1..pos+4] (0-based pos), for
\* values below 2^31
BigEndianUint32(b, pos) ==
    b[pos+1] * 16777216 + b[pos+2] * 65536 + b[pos+3] * 256 + b[pos+4]

\* Go's b[lo:hi] with 0-based bounds
Slice(b, lo, hi) == SubSeq(b, lo + 1, hi)

\* uint64 values are 8 big-endian bytes
Zero64 == Zeros(8)

\* uint64(offset32)
ZeroExtend(b4) == Zeros(4) \o b4

\* bytes.Compare on two sequences of equal length: -1, 0 or 1
Compare(a, b) ==
    LET diff == {i \in 1..Len(a) : a[i] # b[i]} IN
    IF diff = {} THEN 0
    ELSE LET k == CHOOSE i \in diff : \A j \in diff : i <= j IN
         IF a[k] < b[k] THEN -1 ELSE 1

\* bytes.HasPrefix
HasPrefix(b, p) == Len(b) >= Len(p) /\ SubSeq(b, 1, Len(p)) = p

(***************************************************************************)
(* The files the model generates.                                          *)
(***************************************************************************)
MkId(first, last) == <<first>> \o Zeros(IdLen - 2) \o <<last>>

\* the identifiers files store and calls ask for, in ascending order
IdCatalogue == << MkId(0, 5), MkId(1, 0), MkId(1, 5), MkId(1, 9), MkId(255, 0) >>

Ids == {IdCatalogue[i] : i \in 1..Len(IdCatalogue)}

\* a two-slot 64-bit offset table: 2^31 and 2^32 + 12
Offset8Slots == << <<0, 0, 0, 0, 128, 0, 0, 0>>, <<0, 0, 0, 1, 0, 0, 0, 12>> >>

\* 32-bit offset table entries: 0 (which no well-formed index stores), pack
\* offset 12, and the two 64-bit slots
OffsetEntries == { <<0, 0, 0, 0>>, <<0, 0, 0, 12>>, <<128, 0, 0, 0>>, <<128, 0, 0, 1>> }

RECURSIVE Flatten(_)
Flatten(ss) == IF ss = <<>> THEN <<>> ELSE Head(ss) \o Flatten(Tail(ss))

\* strictly increasing sequences of catalogue positions, at most n long
RECURSIVE Ascending(_, _)
Ascending(n, from) ==
    IF n = 0 THEN { <<>> }
    ELSE { <<>> } \cup
         UNION { { <<k>> \o t : t \in Ascending(n - 1, k + 1) } :
                 k \in from..Len(IdCatalogue) }

RECURSIVE SeqsOf(_, _)
SeqsOf(S, n) ==
    IF n = 0 THEN { <<>> } ELSE { <<x>> \o t : x \in S, t \in SeqsOf(S, n - 1) }

IdxMagic == <<255, 116, 79, 99>>

\* The bytes of a version-2 index file storing identifiers ids (ascending) with
\* 32-bit offset entries offs and the 64-bit table off8; magic and version
\* are the first eight bytes.
IdxFileBytes(ids, offs, off8, magic, version) ==
    LET n == Len(ids)
        count == [b \in 0..255 |-> Cardinality({i \in 1..n : ids[i][1] <= b})]
        \* big-endian 32-bit counts; every count is below 256
        fan == [i \in 1..1024 |-> IF i % 4 = 0 THEN count[(i - 1) \div 4] ELSE 0]
    IN  magic \o version \o fan \o Flatten(ids)
          \o [i \in 1..(4 * n) |-> 170] \o Flatten(offs) \o Flatten(off8)
          \o [i \in 1..40 |-> 238]

PackMagic == <<80, 65, 67, 75>>

\* an empty version-2 pack: "PACK", version 2, zero objects
EmptyPack ==
    [exists |-> TRUE, bytes |-> PackMagic \o <<0, 0, 0, 2, 0, 0, 0, 0>>, streams |-> <<>>]

\* no such file
NoFile == [exists |-> FALSE, bytes |-> <<>>, streams |-> <<>>]

(***************************************************************************)
(* Index files on disk.                                                    *)
(***************************************************************************)
IdxVariants ==
    { "ok", "badmagic", "badversion", "badboth", "truncated", "empty",
      "openerr", "nopack", "shortpack", "notpack" }

\* filepath of the pack next to an index file: path[0:len(path)-3] + "pack"
packpathOf(path) == <<path[1], "pack">>

\* The index file pack-<stem>.idx storing catalogue positions p with offset entries
\* offs, and its sibling pack.  The record holds what the file is generated
\* from; IdxBytesOf gives its bytes.
IdxFile(stem, p, offs, pack, variant) ==
    [ path |-> <<stem, "idx">>,
      variant |-> variant,
      ids |-> [i \in 1..Len(p) |-> IdCatalogue[p[i]]],
      offs |-> offs,
      off8 |-> IF \E i \in 1..Len(offs) : offs[i][1] >= 128 THEN Offset8Slots ELSE <<>>,
      pack |-> CASE variant = "nopack" -> NoFile
                 [] variant = "shortpack" ->
                      [exists |-> TRUE, bytes |-> PackMagic, streams |-> <<>>]
                 [] variant = "notpack" ->
                      [exists |-> TRUE, bytes |-> <<75, 67, 65, 80, 0, 0, 0, 2, 0, 0, 0, 0>>,
                       streams |-> <<>>]
                 [] OTHER -> pack ]

\* the bytes of the index file f
IdxBytesOf(f) ==
    LET magic == IF f.variant \in {"badmagic", "badboth"} THEN <<0, 0, 0, 0>> ELSE IdxMagic
        version == IF f.variant \in {"badversion", "badboth"} THEN <<0, 0, 0, 3>>
                   ELSE <<0, 0, 0, 2>>
    IN CASE f.variant = "truncated" -> magic \o version
         [] f.variant = "empty" -> <<>>
         [] OTHER -> IdxFileBytes(f.ids, f.offs, f.off8, magic, version)

(***************************************************************************)
(* The index reader.                                                       *)
(***************************************************************************)
\* readIdxFile(f.path); f.pack is the sibling pack file, or NoFile.
readIdxFile(f) ==
    LET m == IdxBytesOf(f)
        fail(e) == [out |-> "err", err |-> e, idx |-> NilPtr]
        panic == [out |-> "panic", err |-> "slice bounds out of range", idx |-> NilPtr]
    IN
    IF f.variant = "openerr" THEN fail("open")
    ELSE IF Len(m) = 0 THEN fail("mmap")
    ELSE IF ~HasPrefix(m, IdxMagic) THEN fail("Not version 2 index file")
    ELSE IF Len(m) < 8 + 256 * 4 THEN panic
    ELSE
      LET fanoutTable == [i \in 0..255 |-> BigEndianUint32(m, 8 + i * 4)]
          numObjects == fanoutTable[255]
          shaStart == 8 + 256 * 4
          offsetStart == shaStart + 24 * numObjects
          offset8Start == offsetStart + 4 * numObjects
      IN
      IF \/ shaStart + 20 * numObjects > Len(m)
         \/ offsetStart + 4 * numObjects > Len(m)
         \/ offset8Start > Len(m) - 40
      THEN panic
      ELSE IF ~f.pack.exists THEN fail("open pack")
      ELSE IF Len(f.pack.bytes) < 8 THEN fail("unexpected EOF")
      ELSE IF ~HasPrefix(Slice(f.pack.bytes, 0, 8), PackMagic)
           THEN fail("Pack file does not start with 'PACK'")
      ELSE [out |-> "ok", err |-> Nil,
            idx |-> [nil |-> FALSE, packpath |-> packpathOf(f.path),
                     fanoutTable |-> fanoutTable,
                     shaTable |-> Slice(m, shaStart, shaStart + 20 * numObjects),
                     offsetTable |-> Slice(m, offsetStart, offsetStart + 4 * numObjects),
                     offset8Table |-> Slice(m, offset8Start, Len(m) - 40)]]

\* comp <= 0 of the closure handed to sort.Search, for probe i
searchPred(ix, target, startSearch, i) ==
    LET cpos == (startSearch + i) * 20 IN
    Compare(target, Slice(ix.shaTable, cpos, cpos + 20))

\* sort.Search(n, f) from i, j; exact collects the closure's exactMatch
RECURSIVE sortSearch(_, _, _, _, _, _)
sortSearch(ix, target, startSearch, i, j, exact) ==
    IF i < j THEN
        LET h == (i + j) \div 2
            comp == searchPred(ix, target, startSearch, h)
            ex == exact \/ comp = 0
        IN IF ~(comp <= 0)
           THEN sortSearch(ix, target, startSearch, h + 1, j, ex)
           ELSE sortSearch(ix, target, startSearch, i, h, ex)
    ELSE [found |-> i, exactMatch |-> exact]

\* startSearchOf with the fanout entry of target[0] itself
startSearchOf_SameByte(ix, target) ==
    IF target[1] > 0 THEN ix.fanoutTable[target[1]] ELSE 0

\* the window [startSearch, endSearch) the fanout table gives for target
startSearchOf(ix, target) ==
    IF target[1] > 0 THEN ix.fanoutTable[target[1] - 1] ELSE 0

endSearchOf(ix, target) == ix.fanoutTable[target[1]]

\* rankOf without the start of the window
rankOf_WindowRelative(startSearch, found) == found

\* the entry of offsetTable read for the hit: (startSearch + int64(found))
rankOf(startSearch, found) == startSearch + found

\* idxFile.offsetForSHA with what it computed on the way: the result offset
\* (a uint64), the closure's exactMatch and the rank read from offsetTable
offsetForSHAFull(ix, target) ==
    LET startSearch == startSearchOf(ix, target)
        endSearch == endSearchOf(ix, target)
        s == sortSearch(ix, target, startSearch, 0, endSearch - startSearch, FALSE)
    IN
    IF ~s.exactMatch
    THEN [offset |-> Zero64, exactMatch |-> FALSE, rank |-> -1, out |-> "ok"]
    ELSE
      LET rank == rankOf(startSearch, s.found)
          pos == rank * 4
          o32 == Slice(ix.offsetTable, pos, pos + 4)
      IN
      IF o32[1] >= 128
      THEN LET pos8 == BigEndianUint32(<<o32[1] - 128, o32[2], o32[3], o32[4]>>, 0) * 8 IN
           IF pos8 + 8 > Len(ix.offset8Table)
           THEN [offset |-> Zero64, exactMatch |-> TRUE, rank |-> rank, out |-> "panic"]
           ELSE [offset |-> Slice(ix.offset8Table, pos8, pos8 + 8),
                 exactMatch |-> TRUE, rank |-> rank, out |-> "ok"]
      ELSE [offset |-> ZeroExtend(o32), exactMatch |-> TRUE, rank |-> rank, out |-> "ok"]

offsetForSHA(ix, target) == offsetForSHAFull(ix, target).offset

NoCall == [op |-> "none"]

(***************************************************************************)
(* Calls of the index reader, as the package's tests make them.            *)
(***************************************************************************)
\* idx, err := readIdxFile(path), once in a behaviour
ReadIdxFile ==
    /\ ret = NoCall
    /\ \E k \in 1..Len(disk.idxs) :
        LET r == readIdxFile(disk.idxs[k]) IN
        /\ ret' = [op |-> "readIdxFile", file |-> k, out |-> r.out, err |-> r.err]
        /\ idx' = IF r.out = "ok" THEN r.idx ELSE idx
        /\ UNCHANGED <<disk, repos, pooled>>

\* idx.offsetForSHA(target) on the index just read; the lookup is a pure
\* function of the index and the target, so one lookup ends the behaviour
OffsetForSHA ==
    /\ ~idx.nil
    /\ ret.op = "readIdxFile"
    /\ \E target \in Ids :
        LET r == offsetForSHAFull(idx, target) IN
        /\ ret' = [op |-> "offsetForSHA", target |-> target, out |-> r.out,
                   offset |-> r.offset, exactMatch |-> r.exactMatch, rank |-> r.rank]
    /\ UNCHANGED <<disk, repos, idx, pooled>>

InitIdx ==
    /\ \E p \in Ascending(MaxObjects, 1), v \in IdxVariants :
         \E offs \in SeqsOf(OffsetEntries, Len(p)) :
            /\ v = "ok" \/ Len(p) <= 1
            /\ disk = [root |-> "dir",
                       idxs |-> << IdxFile(1, p, offs, EmptyPack, v) >>,
                       loose |-> <<>>]
    /\ repos = NilPtr
    /\ idx = NilPtr
    /\ calls = <<>>
    /\ zlibReaderPool = {}
    /\ zreaders = <<>>
    /\ fds = {}
    /\ ret = NoCall

NextIdx == ReadIdxFile \/ OffsetForSHA

SpecIdx == InitIdx /\ [][NextIdx]_vars

(***************************************************************************)
(* What an index file stores, read off the parameters it was generated     *)
(* from rather than off its bytes.                                         *)
(***************************************************************************)
\* the file on disk behind an opened index
FileOf(ix) ==
    disk.idxs[CHOOSE k \in 1..Len(disk.idxs) : packpathOf(disk.idxs[k].path) = ix.packpath]

\* the pack offset stored for the k-th identifier of f
StoredOffset(f, k) ==
    LET e == f.offs[k] IN
    IF e[1] < 128 THEN <<0, 0, 0, 0>> \o e
    ELSE f.off8[(e[1] - 128) * 16777216 + e[2] * 65536 + e[3] * 256 + e[4] + 1]

\* sha_table strictly ascending and fanout exact hold of every generated
\* file; this is the remaining condition: no stored offset is 0
WellFormedIdx(f) == \A k \in 1..Len(f.ids) : StoredOffset(f, k) # Zero64

StoredIn(f, id) == \E k \in 1..Len(f.ids) : f.ids[k] = id

\* fanout[b]: the number of stored identifiers whose first byte is <= b
FanoutOf(f, b) == Cardinality({k \in 1..Len(f.ids) : f.ids[k][1] <= b})

\* id is stored at a rank inside its fanout window
StoredInWindow(f, id) ==
    LET lo == IF id[1] = 0 THEN 0 ELSE FanoutOf(f, id[1] - 1)
        hi == FanoutOf(f, id[1])
    IN \E r \in lo..(hi - 1) : f.ids[r + 1] = id

\* C1: on a well-formed index, offsetForSHA(id) is non-zero exactly when id
\* is stored in the index, and exactMatch is true on return exactly when id
\* is stored inside the fanout window of its first byte.
C1_OffsetNonZeroIffStored ==
    (ret.op = "offsetForSHA" /\ WellFormedIdx(FileOf(idx))) =>
        /\ ret.out = "ok"
        /\ (ret.offset # Zero64) <=> StoredIn(FileOf(idx), ret.target)
        /\ ret.exactMatch <=> StoredInWindow(FileOf(idx), ret.target)

\* a hit at the last of three stored identifiers, in a window of two that
\* does not start at rank 0
C1_Witness ==
    /\ ret.op = "offsetForSHA"
    /\ WellFormedIdx(FileOf(idx))
    /\ Len(FileOf(idx).ids) = 3
    /\ ret.target = FileOf(idx).ids[3]
    /\ FileOf(idx).ids[2][1] = ret.target[1]
    /\ FileOf(idx).ids[1][1] < ret.target[1]
    /\ ret.offset # Zero64

\* C2: a hit returns the offset stored for the identifier's own rank: the
\* 32-bit entry itself when its high bit is clear, else the 64-bit value in
\* slot (entry & 0x7FFFFFFF) of the 64-bit table.
C2_OffsetOfRank ==
    (ret.op = "offsetForSHA" /\ ret.exactMatch) =>
        \E k \in 1..Len(FileOf(idx).ids) :
            /\ FileOf(idx).ids[k] = ret.target
            /\ ret.rank = k - 1
            /\ ret.out = "ok"
            /\ ret.offset = StoredOffset(FileOf(idx), k)

\* a hit at rank 1 whose entry has the high bit set and names slot 1
C2_Witness ==
    /\ ret.op = "offsetForSHA"
    /\ ret.exactMatch
    /\ ret.rank = 1
    /\ FileOf(idx).offs[2] = <<128, 0, 0, 1>>
    /\ FileOf(idx).offs[1] = <<0, 0, 0, 12>>
    /\ ret.offset = Offset8Slots[2]

\* C10: readIdxFile returns an index only for a file that starts with the
\* magic FF 74 4F 63 followed by the version word 00 00 00 02; a file in
\* which either differs gets the error and no index.
C10_MagicAndVersionChecked ==
    ret.op = "readIdxFile" =>
        LET b == IdxBytesOf(disk.idxs[ret.file])
            good == /\ Len(b) >= 8
                    /\ SubSeq(b, 1, 4) = IdxMagic
                    /\ SubSeq(b, 5, 8) = <<0, 0, 0, 2>>
        IN /\ ret.out = "ok" => good
           /\ (Len(b) >= 8 /\ disk.idxs[ret.file].variant # "openerr" /\ ~good) =>
                (ret.out = "err" /\ ret.err = "Not version 2 index file")

\* a file with the magic and the version word 00 00 00 03 was read as an
\* index
C10_Witness ==
    /\ ret.op = "readIdxFile"
    /\ ret.out = "ok"
    /\ SubSeq(IdxBytesOf(disk.idxs[ret.file]), 1, 8) = IdxMagic \o <<0, 0, 0, 3>>
    /\ ~idx.nil

(***************************************************************************)
(* The variable-length integers of the pack format.                        *)
(***************************************************************************)
\* buf[i] of a buffer made with make([]byte, 1024) and filled from the file
\* bytes b starting at 0-based offset off: zero past the bytes read
BufAt(b, off, i) == IF off + i + 1 <= Len(b) THEN b[off + i + 1] ELSE 0

\* shift := [...]byte{0, 4, 11, 18, 25, 32, 39, 46, 53, 60}
shift == <<0, 4, 11, 18, 25, 32, 39, 46, 53, 60>>

RECURSIVE Pow2(_)
Pow2(n) == IF n = 0 THEN 1 ELSE 2 * Pow2(n - 1)

\* readLenInPackFile(buf) for the buffer read at off: the loop from advance
\* with length so far; indexing shift past its 10 entries panics
RECURSIVE readLenLoop(_, _, _, _)
readLenLoop(b, off, advance, length) ==
    IF BufAt(b, off, advance) >= 128 THEN
        IF advance + 1 >= Len(shift)
        THEN [out |-> "panic", length |-> length, advance |-> advance + 1]
        ELSE readLenLoop(b, off, advance + 1,
                 length + (BufAt(b, off, advance + 1) % 128) * Pow2(shift[advance + 2]))
    ELSE [out |-> "ok", length |-> length, advance |-> advance + 1]

readLenInPackFile(b, off) == readLenLoop(b, off, 0, BufAt(b, off, 0) % 16)

\* readLittleEndianBase128Number(buf) for buf = the bytes of b after the
\* first zpos0; reading past the end of buf panics
RECURSIVE base128Loop(_, _, _, _, _)
base128Loop(b, zpos0, zpos, toread, sh) ==
    IF zpos0 + zpos + 1 > Len(b) THEN [out |-> "panic", value |-> 0, read |-> 0]
    ELSE IF b[zpos0 + zpos + 1] >= 128 THEN
        IF zpos0 + zpos + 2 > Len(b) THEN [out |-> "panic", value |-> 0, read |-> 0]
        ELSE base128Loop(b, zpos0, zpos + 1,
                 toread + (b[zpos0 + zpos + 2] % 128) * Pow2(sh + 7), sh + 7)
    ELSE [out |-> "ok", value |-> toread, read |-> zpos + 1]

readLittleEndianBase128Number(b, zpos0) ==
    IF zpos0 + 1 > Len(b) THEN [out |-> "panic", value |-> 0, read |-> 0]
    ELSE base128Loop(b, zpos0, 0, b[zpos0 + 1] % 128, 0)

\* a loop that shifts num by 7 bits without adding 1 first
RECURSIVE backRefLoop_NoBias(_, _, _, _)
backRefLoop_NoBias(b, off, pos, num) ==
    IF BufAt(b, off, pos) >= 128
    THEN backRefLoop_NoBias(b, off, pos + 1, num * 128 + (BufAt(b, off, pos + 1) % 128))
    ELSE [num |-> num, pos |-> pos]

\* the offset-delta back-reference read from buf[pos]: num and the position
\* of its last byte
RECURSIVE backRefLoop(_, _, _, _)
backRefLoop(b, off, pos, num) ==
    IF BufAt(b, off, pos) >= 128
    THEN backRefLoop(b, off, pos + 1, (num + 1) * 128 + (BufAt(b, off, pos + 1) % 128))
    ELSE [num |-> num, pos |-> pos]

backRef(b, off, pos) == backRefLoop(b, off, pos, BufAt(b, off, pos) % 128)

(***************************************************************************)
(* The delta engine.                                                       *)
(***************************************************************************)
\* operand bytes read as copyArgs reads them, a copy_length of 0 left as it is
RECURSIVE copyArgs_KeepZero(_, _, _, _, _, _)
copyArgs_KeepZero(prog, zpos, opcode, i, copy_offset, copy_length) ==
    IF i = 7
    THEN [out |-> "ok", zpos |-> zpos, copy_offset |-> copy_offset,
          copy_length |-> copy_length]
    ELSE IF (opcode \div Pow2(i)) % 2 = 1 THEN
        IF zpos + 1 > Len(prog)
        THEN [out |-> "panic", zpos |-> zpos, copy_offset |-> 0, copy_length |-> 0]
        ELSE IF i < 4
        THEN copyArgs_KeepZero(prog, zpos + 1, opcode, i + 1,
                      copy_offset + prog[zpos + 1] * Pow2(8 * i), copy_length)
        ELSE copyArgs_KeepZero(prog, zpos + 1, opcode, i + 1,
                      copy_offset, copy_length + prog[zpos + 1] * Pow2(8 * (i - 4)))
    ELSE copyArgs_KeepZero(prog, zpos, opcode, i + 1, copy_offset, copy_length)

\* The operand bytes of a copy opcode: bits 0..3 select the bytes of
\* copy_offset, bits 4..6 those of copy_length; i is the bit being looked at.
RECURSIVE copyArgs(_, _, _, _, _, _)
copyArgs(prog, zpos, opcode, i, copy_offset, copy_length) ==
    IF i = 7
    THEN [out |-> "ok", zpos |-> zpos, copy_offset |-> copy_offset,
          copy_length |-> IF copy_length = 0 THEN 65536 ELSE copy_length]
    ELSE IF (opcode \div Pow2(i)) % 2 = 1 THEN
        IF zpos + 1 > Len(prog)
        THEN [out |-> "panic", zpos |-> zpos, copy_offset |-> 0, copy_length |-> 0]
        ELSE IF i < 4
        THEN copyArgs(prog, zpos + 1, opcode, i + 1,
                      copy_offset + prog[zpos + 1] * Pow2(8 * i), copy_length)
        ELSE copyArgs(prog, zpos + 1, opcode, i + 1,
                      copy_offset, copy_length + prog[zpos + 1] * Pow2(8 * (i - 4)))
    ELSE copyArgs(prog, zpos, opcode, i + 1, copy_offset, copy_length)

\* a loop whose insert takes its bytes from the opcode byte on
RECURSIVE applyDeltaLoop_InsertFromOpcode(_, _, _, _, _)
applyDeltaLoop_InsertFromOpcode(prog, base, resultLen, zpos, written) ==
    LET panic == [out |-> "panic", data |-> <<>>, err |-> "index out of range"] IN
    IF ~(zpos < Len(prog))
    THEN [out |-> "ok", data |-> written \o Zeros(resultLen - Len(written)), err |-> Nil]
    ELSE
      LET opcode == prog[zpos + 1] IN
      IF opcode >= 128 THEN
          LET a == copyArgs(prog, zpos + 1, opcode, 0, 0, 0) IN
          IF a.out = "panic" THEN panic
          ELSE IF \/ a.copy_offset + a.copy_length > Len(base)
                  \/ Len(written) + a.copy_length > resultLen
          THEN panic
          ELSE applyDeltaLoop_InsertFromOpcode(prog, base, resultLen, a.zpos,
                   written \o Slice(base, a.copy_offset, a.copy_offset + a.copy_length))
      ELSE IF opcode > 0 THEN
          IF \/ zpos + 1 + opcode > Len(prog)
             \/ Len(written) + opcode > resultLen
          THEN panic
          ELSE applyDeltaLoop_InsertFromOpcode(prog, base, resultLen, zpos + 1 + opcode,
                   written \o Slice(prog, zpos, zpos + opcode))
      ELSE [out |-> "err", data |-> <<>>, err |-> "opcode == 0"]

\* applyDelta's loop: zpos is the position in the program, written the bytes
\* stored into resultObject so far (resultpos = Len(written)).  An index
\* out of range panics.
RECURSIVE applyDeltaLoop(_, _, _, _, _)
applyDeltaLoop(prog, base, resultLen, zpos, written) ==
    LET panic == [out |-> "panic", data |-> <<>>, err |-> "index out of range"] IN
    IF ~(zpos < Len(prog))
    THEN [out |-> "ok", data |-> written \o Zeros(resultLen - Len(written)), err |-> Nil]
    ELSE
      LET opcode == prog[zpos + 1] IN
      IF opcode >= 128 THEN
          LET a == copyArgs(prog, zpos + 1, opcode, 0, 0, 0) IN
          IF a.out = "panic" THEN panic
          ELSE IF \/ a.copy_offset + a.copy_length > Len(base)
                  \/ Len(written) + a.copy_length > resultLen
          THEN panic
          ELSE applyDeltaLoop(prog, base, resultLen, a.zpos,
                   written \o Slice(base, a.copy_offset, a.copy_offset + a.copy_length))
      ELSE IF opcode > 0 THEN
          IF \/ zpos + 1 + opcode > Len(prog)
             \/ Len(written) + opcode > resultLen
          THEN panic
          ELSE applyDeltaLoop(prog, base, resultLen, zpos + 1 + opcode,
                   written \o Slice(prog, zpos + 1, zpos + 1 + opcode))
      ELSE [out |-> "err", data |-> <<>>, err |-> "opcode == 0"]

applyDelta(prog, base, resultLen) == applyDeltaLoop(prog, base, resultLen, 0, <<>>)

(***************************************************************************)
(* The pack object reader.                                                 *)
(***************************************************************************)
ObjectCommit == 16
ObjectTree == 32
ObjectBlob == 48
ObjectTag == 64
OffsetDelta == 96
IdDelta == 112

\* readCompressedDataFromFile(file, start, inflatedSize): the first
\* inflatedSize bytes of the zlib stream that starts at start
readCompressedDataFromFile(file, start, inflatedSize) ==
    LET at == {k \in 1..Len(file.streams) : file.streams[k].pos = start} IN
    IF at = {} THEN [out |-> "err", data |-> <<>>, err |-> "zlib: invalid header"]
    ELSE LET content == file.streams[CHOOSE k \in at : TRUE].data IN
         IF Len(content) < inflatedSize
         THEN [out |-> "err", data |-> <<>>, err |-> "unexpected EOF"]
         ELSE [out |-> "ok", data |-> SubSeq(content, 1, inflatedSize), err |-> Nil]

\* ObjectType(buf[0] & 0x70)
rawType(b0) == ((b0 \div 16) % 8) * 16

\* a reader whose switch has no case for the id delta
isIdDelta_Never(ot) == FALSE

\* case 0x70 of the switch on the raw type
isIdDelta(ot) == ot = IdDelta

\* readObjectBytes(path, offset, sizeonly) on the pack file pk at int64(offset)
\* = offsetInt.  reads lists the offsets at which a call opened the pack and
\* inflates the streams inflated, in order; onstack holds the offsets of the
\* calls this one is nested in: reaching one of them again repeats the same
\* call inside itself, without end ("diverges").
RECURSIVE readObjectBytesRec(_, _, _, _)
readObjectBytesRec(pk, offsetInt, sizeonly, onstack) ==
    LET R(out, ot, length, data, err, reads, inflates) ==
            [out |-> out, ot |-> ot, length |-> length, data |-> data, err |-> err,
             reads |-> reads, inflates |-> inflates, zreads |-> 0]
        here == <<offsetInt>>
    IN
    IF ~pk.exists THEN R("err", 0, 0, <<>>, "open", <<>>, <<>>)
    ELSE IF offsetInt < 0 THEN R("err", 0, 0, <<>>, "seek", here, <<>>)
    ELSE IF offsetInt >= Len(pk.bytes) THEN R("err", 0, 0, <<>>, "EOF", here, <<>>)
    ELSE
      LET ot == rawType(BufAt(pk.bytes, offsetInt, 0))
          lp == readLenInPackFile(pk.bytes, offsetInt)
          length == lp.length
      IN
      IF lp.out = "panic" THEN R("panic", ot, 0, <<>>, "index out of range", here, <<>>)
      ELSE IF ot \in {ObjectCommit, ObjectTree, ObjectBlob, ObjectTag} THEN
          IF sizeonly THEN R("ok", ot, length, <<>>, Nil, here, <<>>)
          ELSE LET z == readCompressedDataFromFile(pk, offsetInt + lp.advance, length) IN
               R(z.out, ot, length, z.data, z.err, here,
                 << [pos |-> offsetInt + lp.advance, size |-> length] >>)
      ELSE IF isIdDelta(ot) THEN R("err", ot, length, <<>>, "not implemented yet", here, <<>>)
      ELSE
        LET br == backRef(pk.bytes, offsetInt, lp.advance)
            baseObjectOffset == IF ot = OffsetDelta THEN offsetInt - br.num ELSE 0
            pos == IF ot = OffsetDelta THEN br.pos + 1 ELSE lp.advance
        IN
        IF baseObjectOffset \in onstack \cup {offsetInt}
        THEN R("diverges", ot, length, <<>>, Nil, here, <<>>)
        ELSE
          LET base == readObjectBytesRec(pk, baseObjectOffset, FALSE,
                                         onstack \cup {offsetInt})
              reads == here \o base.reads
          IN
          IF base.out # "ok"
          THEN R(base.out, base.ot, length, <<>>, base.err, reads, base.inflates)
          ELSE
            LET z == readCompressedDataFromFile(pk, offsetInt + pos, length)
                inflates == base.inflates \o << [pos |-> offsetInt + pos, size |-> length] >>
                b == z.data
                n1 == readLittleEndianBase128Number(b, 0)
                n2 == readLittleEndianBase128Number(b, n1.read)
                resultObjectLength == n2.value
            IN
            IF z.out # "ok" THEN R("err", base.ot, length, <<>>, z.err, reads, inflates)
            ELSE IF n1.out = "panic" \/ n2.out = "panic"
            THEN R("panic", base.ot, length, <<>>, "index out of range", reads, inflates)
            ELSE IF sizeonly
            THEN R("ok", base.ot, resultObjectLength, <<>>, Nil, reads, inflates)
            ELSE LET d == applyDelta(Slice(b, n1.read + n2.read, Len(b)), base.data,
                                     resultObjectLength)
                 IN R(d.out, base.ot, length, d.data, d.err, reads, inflates)

readObjectBytes(pk, offsetInt, sizeonly) == readObjectBytesRec(pk, offsetInt, sizeonly, {})

(***************************************************************************)
(* Pack files on disk.                                                     *)
(***************************************************************************)
\* most objects in one generated pack file
MaxPackObjects == 3

\* the packed object header for raw type t and inflated size n < 2048
EncodeHeader(t, n) ==
    IF n < 16 THEN << t + n >> ELSE << 128 + t + (n % 16), n \div 16 >>

\* the offset-delta back-reference num < 16512
EncodeBackRef(num) ==
    IF num < 128 THEN << num >> ELSE << 128 + ((num \div 128) - 1), num % 128 >>

\* the raw bytes a deflated stream takes in the file (its content is kept in
\* the file's streams)
RawStream == <<120, 156>>

\* a delta of 7 bytes: base size 3, result size 4, copy base[0:2], insert 9 9
DeltaCopyInsert == <<3, 4, 144, 2, 2, 9, 9>>

\* The objects a generated pack is made of.  back says where an offset
\* delta's base is: the object before it ("prev"), itself ("self"), or 200
\* bytes back, before the start of the file ("far"), or the first byte of
\* the file ("start").
ObjTemplates ==
    { [raw |-> ObjectCommit, data |-> [i \in 1..17 |-> 100 + i], back |-> "none"],
      [raw |-> ObjectTag, data |-> <<1, 2, 3>>, back |-> "none"],
      [raw |-> OffsetDelta, data |-> DeltaCopyInsert, back |-> "prev"],
      [raw |-> OffsetDelta, data |-> DeltaCopyInsert, back |-> "self"],
      [raw |-> OffsetDelta, data |-> DeltaCopyInsert, back |-> "far"],
      [raw |-> IdDelta, data |-> DeltaCopyInsert, back |-> "none"] }

\* Lay the objects objs[k..] out after the bytes so far: starts are the
\* offsets of the objects laid out, streams the zlib streams with the offset
\* each starts at.
RECURSIVE PackLayout(_, _, _, _, _)
PackLayout(objs, k, bytes, streams, starts) ==
    IF k > Len(objs)
    THEN [exists |-> TRUE, bytes |-> bytes, streams |-> streams, starts |-> starts,
          objs |-> objs]
    ELSE
      LET o == objs[k]
          offset == Len(bytes)
          prev == IF starts = <<>> THEN 0 ELSE starts[Len(starts)]
          extra == CASE o.back = "prev" -> EncodeBackRef(offset - prev)
                     [] o.back = "self" -> EncodeBackRef(0)
                     [] o.back = "far" -> EncodeBackRef(200)
                     [] o.back = "start" -> EncodeBackRef(offset)
                     [] o.raw = IdDelta -> IdCatalogue[1]
                     [] OTHER -> <<>>
          head == EncodeHeader(o.raw, Len(o.data)) \o extra
      IN PackLayout(objs, k + 1, bytes \o head \o RawStream,
                    Append(streams, [pos |-> offset + Len(head), data |-> o.data]),
                    Append(starts, offset))

\* a version-2 pack file holding objs
PackFile(objs) ==
    PackLayout(objs, 1, PackMagic \o <<0, 0, 0, 2, 0, 0, 0, Len(objs)>>, <<>>, <<>>)

Packs == UNION { { PackFile(objs) : objs \in SeqsOf(ObjTemplates, n) } : n \in 0..MaxPackObjects }

(***************************************************************************)
(* Calls of the pack reader, as the package's tests make them.             *)
(***************************************************************************)
\* readObjectBytes(idx.packpath, offset, sizeonly) on the pack of the first
\* index file; the result is a pure function of the file and the arguments,
\* so one call ends the behaviour
ReadObjectBytes ==
    /\ ret = NoCall
    /\ \E offset \in 0..Len(disk.idxs[1].pack.bytes), sizeonly \in BOOLEAN :
        LET r == readObjectBytes(disk.idxs[1].pack, offset, sizeonly) IN
        /\ ret' = [op |-> "readObjectBytes", offset |-> offset, sizeonly |-> sizeonly,
                   out |-> r.out, ot |-> r.ot, length |-> r.length, data |-> r.data,
                   err |-> r.err, reads |-> r.reads, inflates |-> r.inflates]
        /\ UNCHANGED <<disk, repos, idx, pooled>>

InitPack ==
    /\ \E pk \in Packs :
         disk = [root |-> "dir",
                 idxs |-> << IdxFile(1, <<>>, <<>>, pk, "ok") >>,
                 loose |-> <<>>]
    /\ repos = NilPtr
    /\ idx = NilPtr
    /\ calls = <<>>
    /\ zlibReaderPool = {}
    /\ zreaders = <<>>
    /\ fds = {}
    /\ ret = NoCall

NextPack == ReadObjectBytes

SpecPack == InitPack /\ [][NextPack]_vars

(***************************************************************************)
(* The loose object reader.                                                *)
(***************************************************************************)
\* first_buffer_size := int64(1024)
first_buffer_size == 1024

\* bytes.IndexByte(b, c) on the buffer holding content and then zeros up to
\* first_buffer_size: 0-based, -1 when c is not in it
IndexByte(content, c) ==
    LET hits == {i \in 1..Len(content) : content[i] = c} IN
    IF hits # {} THEN (CHOOSE i \in hits : \A j \in hits : i <= j) - 1
    ELSE IF c = 0 /\ Len(content) < first_buffer_size THEN Len(content)
    ELSE -1

\* the sum of (b[j] - 48) * 10^(i - j) over the bytes b[0..i] of b = content[from:]
RECURSIVE decimalValue(_, _, _)
decimalValue(content, from, i) ==
    IF i < 0 THEN 0
    ELSE (content[from + i + 1] - 48) + 10 * decimalValue(content, from, i - 1)

\* getLengthZeroTerminated(b[from:]): the digits before the first NUL read
\* as a decimal number, and the position after the NUL
getLengthZeroTerminated(content, from) ==
    LET rest == Slice(content, from, Len(content))
        pos == IndexByte(rest, 0)
    IN IF pos < 0 \/ from + pos >= first_buffer_size
       THEN [out |-> "panic", length |-> 0, objstart |-> 0]
       ELSE [out |-> "ok", length |-> decimalValue(content, from, pos - 1),
             objstart |-> pos + 1]

\* the switch on objecttypeString; no case matches any other token
typeOfToken(tok) ==
    CASE tok = <<98, 108, 111, 98>> -> ObjectBlob
      [] tok = <<116, 114, 101, 101>> -> ObjectTree
      [] tok = <<99, 111, 109, 109, 105, 116>> -> ObjectCommit
      [] tok = <<116, 97, 103>> -> ObjectTag
      [] OTHER -> 0

\* readObjectFile(path, sizeonly) on the loose file f = [state, zlibOk,
\* content]: content is what the zlib stream inflates to (shorter than
\* first_buffer_size), and the first Read delivers all of it.  zreads counts
\* the Reads from the inflater.
readObjectFile(f, sizeonly) ==
    LET R(out, ot, length, data, err, zreads) ==
            [out |-> out, ot |-> ot, length |-> length, data |-> data, err |-> err,
             reads |-> <<>>, inflates |-> <<>>, zreads |-> zreads]
        n == Len(f.content)
        spaceposition == IndexByte(f.content, 32)
    IN
    IF f.state # "file" THEN R("err", 0, 0, <<>>, "open", 0)
    ELSE IF ~f.zlibOk THEN R("err", 0, 0, <<>>, "zlib: invalid header", 0)
    ELSE IF n = 0 THEN R("err", 0, 0, <<>>, "EOF", 1)
    ELSE IF spaceposition < 0 THEN R("panic", 0, 0, <<>>, "slice bounds out of range", 1)
    ELSE
      LET ot == typeOfToken(Slice(f.content, 0, spaceposition))
          g == getLengthZeroTerminated(f.content, spaceposition + 1)
          length == g.length
          objstart == g.objstart + spaceposition + 1
          remainingSize == length - first_buffer_size + objstart
          b == f.content \o Zeros(first_buffer_size - n)
      IN
      IF g.out = "panic" THEN R("panic", ot, 0, <<>>, "index out of range", 1)
      ELSE IF sizeonly THEN R("ok", ot, length, <<>>, Nil, 1)
      ELSE IF n < length + objstart THEN
          IF remainingSize < 0
          THEN R("panic", ot, length, <<>>, "makeslice: len out of range", 1)
          ELSE IF remainingSize > 0
          THEN R("hangs", ot, length, <<>>, Nil, 2)
          ELSE R("ok", ot, length, Slice(b, objstart, objstart + length), Nil, 1)
      ELSE IF length < 0
      THEN R("panic", ot, length, <<>>, "slice bounds out of range", 1)
      ELSE R("ok", ot, length, Slice(b, objstart, objstart + length), Nil, 1)

(***************************************************************************)
(* The repository facade.                                                  *)
(***************************************************************************)
\* int64(offset) of a uint64 as far as the readers tell values apart: the
\* value itself below 2^31, a negative number when bit 63 is set, and
\* otherwise an offset past the end of every file
HugeOffset == 2147483646 + 1

offsetInt(o) ==
    IF o[1] >= 128 THEN -1
    ELSE IF o[1] = 0 /\ o[2] = 0 /\ o[3] = 0 /\ o[4] = 0 /\ o[5] < 128
    THEN BigEndianUint32(o, 4)
    ELSE HugeOffset

\* the pack file at packpath
PackAt(d, packpath) ==
    LET at == {k \in 1..Len(d.idxs) : packpathOf(d.idxs[k].path) = packpath} IN
    IF at = {} THEN NoFile ELSE d.idxs[CHOOSE k \in at : TRUE].pack

\* the file at filepathFromSHA1(repos.Path, oid.String())
LooseAt(d, oid) ==
    LET at == {k \in 1..Len(d.loose) : d.loose[k].oid = oid} IN
    IF at = {} THEN [oid |-> oid, state |-> "absent", zlibOk |-> FALSE, content |-> <<>>]
    ELSE d.loose[CHOOSE k \in at : TRUE]

\* the result of a lookup that found the identifier nowhere
notFoundResult(notFound) ==
    [out |-> "err", ot |-> 0, length |-> 0, data |-> <<>>, err |-> notFound,
     reads |-> <<>>, inflates |-> <<>>, zreads |-> 0]

\* a loop that goes on to the next index when the pack of an index that
\* holds the identifier cannot supply the object
RECURSIVE lookupInIndexes_SkipFailed(_, _, _, _, _, _, _)
lookupInIndexes_SkipFailed(d, rp, oid, sizeonly, notFound, i, consulted) ==
    IF i > Len(rp.indexfiles)
    THEN [res |-> notFoundResult(notFound), consulted |-> consulted, loose |-> FALSE,
          sizeonly |-> sizeonly]
    ELSE
      LET indexfile == rp.indexfiles[i]
          offset == offsetForSHA(indexfile, oid)
      IN IF /\ offset # Zero64
            /\ readObjectBytes(PackAt(d, indexfile.packpath), offsetInt(offset),
                               sizeonly).out = "ok"
         THEN [res |-> readObjectBytes(PackAt(d, indexfile.packpath), offsetInt(offset),
                                       sizeonly),
               consulted |-> Append(consulted, i), loose |-> FALSE, sizeonly |-> sizeonly]
         ELSE lookupInIndexes_SkipFailed(d, rp, oid, sizeonly, notFound, i + 1,
                                         Append(consulted, i))

\* a loop over the index files that are in objects/pack when the call is
\* made, each read anew
RECURSIVE lookupInIndexes_FromDisk(_, _, _, _, _, _, _)
lookupInIndexes_FromDisk(d, rp, oid, sizeonly, notFound, i, consulted) ==
    IF i > Len(d.idxs)
    THEN [res |-> notFoundResult(notFound), consulted |-> consulted, loose |-> FALSE,
          sizeonly |-> sizeonly]
    ELSE
      LET r == readIdxFile(d.idxs[i])
          offset == IF r.out = "ok" THEN offsetForSHA(r.idx, oid) ELSE Zero64
      IN IF offset # Zero64
         THEN [res |-> readObjectBytes(PackAt(d, r.idx.packpath), offsetInt(offset),
                                       sizeonly),
               consulted |-> Append(consulted, i), loose |-> FALSE, sizeonly |-> sizeonly]
         ELSE lookupInIndexes_FromDisk(d, rp, oid, sizeonly, notFound, i + 1,
                                       Append(consulted, i))

\* the loop over repos.indexfiles from index i on: the first index whose
\* offsetForSHA is not 0 decides the result res; consulted lists the indexes
\* asked, notFound is the error returned when the loop ends
RECURSIVE lookupInIndexes(_, _, _, _, _, _, _)
lookupInIndexes(d, rp, oid, sizeonly, notFound, i, consulted) ==
    IF i > Len(rp.indexfiles)
    THEN [res |-> notFoundResult(notFound), consulted |-> consulted, loose |-> FALSE,
          sizeonly |-> sizeonly]
    ELSE
      LET indexfile == rp.indexfiles[i]
          offset == offsetForSHA(indexfile, oid)
      IN IF offset # Zero64
         THEN [res |-> readObjectBytes(PackAt(d, indexfile.packpath), offsetInt(offset),
                                       sizeonly),
               consulted |-> Append(consulted, i), loose |-> FALSE, sizeonly |-> sizeonly]
         ELSE lookupInIndexes(d, rp, oid, sizeonly, notFound, i + 1, Append(consulted, i))

\* a dispatch that asks the indexes before it looks for the loose file
dispatch_IndexesFirst(d, rp, oid, sizeonly, notFound) ==
    IF /\ lookupInIndexes(d, rp, oid, sizeonly, notFound, 1, <<>>).res.err = notFound
       /\ LooseAt(d, oid).state # "absent"
    THEN [res |-> readObjectFile(LooseAt(d, oid), sizeonly), consulted |-> <<>>,
          loose |-> TRUE, sizeonly |-> sizeonly]
    ELSE lookupInIndexes(d, rp, oid, sizeonly, notFound, 1, <<>>)

\* the dispatch shared by getRawObject (sizeonly false) and ObjectSize
\* (sizeonly true): os.Stat of the loose path, then the loose reader unless
\* Stat said the file does not exist
dispatch(d, rp, oid, sizeonly, notFound) ==
    IF LooseAt(d, oid).state = "absent"
    THEN lookupInIndexes(d, rp, oid, sizeonly, notFound, 1, <<>>)
    ELSE [res |-> readObjectFile(LooseAt(d, oid), sizeonly), consulted |-> <<>>,
          loose |-> TRUE, sizeonly |-> sizeonly]

\* errObjNotFound
errObjNotFound == "object not found"

\* Repository.getRawObject(oid)
getRawObject(d, rp, oid) == dispatch(d, rp, oid, FALSE, errObjNotFound)

\* what Type returns of getRawObject's result x: the type, or 0 with the
\* error
typeAndError(x) ==
    [x EXCEPT !.ot = IF x.out = "ok" THEN @ ELSE 0, !.length = 0, !.data = <<>>]

\* Repository.Type(oid)
Type(d, rp, oid) == [getRawObject(d, rp, oid) EXCEPT !.res = typeAndError(@)]

\* what ObjectSize returns of a reader's result x: the length and the error
lengthAndError(x) == [x EXCEPT !.ot = 0, !.data = <<>>]

\* Repository.ObjectSize(oid): the dispatch again, with sizeonly true
ObjectSize(d, rp, oid) ==
    [dispatch(d, rp, oid, TRUE, "Object not found") EXCEPT !.res = lengthAndError(@)]

\* the paths OpenRepository is called with: the repository, a path that does
\* not exist, and a regular file
Paths == {"repo", "xxxxxxxx", "afile"}

\* os.Stat(path)
PathKind(d, path) ==
    CASE path = "repo" -> d.root
      [] path = "afile" -> "file"
      [] OTHER -> "absent"

\* a loop that leaves out the index files that cannot be read
RECURSIVE openIndexes_SkipFailed(_, _, _)
openIndexes_SkipFailed(d, i, indexfiles) ==
    IF i > Len(d.idxs)
    THEN [out |-> "ok", err |-> Nil, indexfiles |-> indexfiles, opened |-> i - 1]
    ELSE LET r == readIdxFile(d.idxs[i]) IN
         openIndexes_SkipFailed(d, i + 1,
             IF r.out = "ok" THEN Append(indexfiles, r.idx) ELSE indexfiles)

\* the loop of OpenRepository over the index files Glob found, from file i
\* on, with the indexes read so far
RECURSIVE openIndexes(_, _, _)
openIndexes(d, i, indexfiles) ==
    IF i > Len(d.idxs)
    THEN [out |-> "ok", err |-> Nil, indexfiles |-> indexfiles, opened |-> i - 1]
    ELSE LET r == readIdxFile(d.idxs[i]) IN
         IF r.out # "ok"
         THEN [out |-> r.out, err |-> r.err, indexfiles |-> <<>>, opened |-> i]
         ELSE openIndexes(d, i + 1, Append(indexfiles, r.idx))

\* OpenRepository(path): the *Repository returned (NilPtr with an error) and
\* the number of index files it read
OpenRepository(d, path) ==
    LET kind == PathKind(d, path) IN
    IF kind = "absent"
    THEN [out |-> "err", err |-> "stat", repo |-> NilPtr, opened |-> 0]
    ELSE IF kind # "dir"
    THEN [out |-> "err", err |-> "is not a directory", repo |-> NilPtr, opened |-> 0]
    ELSE LET r == openIndexes(d, 1, <<>>) IN
         [out |-> r.out, err |-> r.err, opened |-> r.opened,
          repo |-> IF r.out = "ok"
                   THEN [nil |-> FALSE, Path |-> path, indexfiles |-> r.indexfiles]
                   ELSE NilPtr]

(***************************************************************************)
(* Repositories on disk.                                                   *)
(***************************************************************************)
\* most index files in objects/pack
MaxIdx == 2

\* the pack every generated repository index points into: a commit of 17
\* bytes at offset 12, an offset delta on it at 16, an id delta at 20
RepoPack ==
    PackFile(<< [raw |-> ObjectCommit, data |-> [i \in 1..17 |-> 100 + i], back |-> "none"],
                [raw |-> OffsetDelta, data |-> DeltaCopyInsert, back |-> "prev"],
                [raw |-> IdDelta, data |-> DeltaCopyInsert, back |-> "none"] >>)

\* the identifiers the calls ask for
Oids == {IdCatalogue[2], IdCatalogue[3]}

\* what an index file of a generated repository stores: catalogue positions
\* and their offset entries
RepoIdxContents ==
    { [p |-> <<>>, offs |-> <<>>, variant |-> "ok"],
      [p |-> <<2>>, offs |-> << <<0, 0, 0, 12>> >>, variant |-> "ok"],
      [p |-> <<2>>, offs |-> << <<0, 0, 0, 16>> >>, variant |-> "ok"],
      [p |-> <<2>>, offs |-> << <<0, 0, 0, 20>> >>, variant |-> "ok"],
      [p |-> <<2, 3>>, offs |-> << <<0, 0, 0, 12>>, <<0, 0, 0, 16>> >>, variant |-> "ok"],
      [p |-> <<3>>, offs |-> << <<128, 0, 0, 0>> >>, variant |-> "ok"],
      [p |-> <<2>>, offs |-> << <<0, 0, 0, 12>> >>, variant |-> "badmagic"],
      [p |-> <<2>>, offs |-> << <<0, 0, 0, 12>> >>, variant |-> "nopack"],
      [p |-> <<>>, offs |-> <<>>, variant |-> "truncated"] }

\* "blob 3\0abc", and the same with the type token "blub"
LooseBlob == <<98, 108, 111, 98, 32, 51, 0, 97, 98, 99>>
LooseBlub == <<98, 108, 117, 98, 32, 51, 0, 97, 98, 99>>

\* the loose file of an identifier: none, a blob, an object with an unknown
\* type token, a file that is no zlib stream, and a path Stat fails on with
\* an error other than "does not exist"
LooseFiles(oid) ==
    { [oid |-> oid, state |-> "absent", zlibOk |-> FALSE, content |-> <<>>],
      [oid |-> oid, state |-> "file", zlibOk |-> TRUE, content |-> LooseBlob],
      [oid |-> oid, state |-> "file", zlibOk |-> TRUE, content |-> LooseBlub],
      [oid |-> oid, state |-> "file", zlibOk |-> FALSE, content |-> <<>>],
      [oid |-> oid, state |-> "staterr", zlibOk |-> FALSE, content |-> <<>>] }

RepoIdxSeqs == UNION { SeqsOf(RepoIdxContents, n) : n \in 0..MaxIdx }

(***************************************************************************)
(* The calls on a repository.                                              *)
(***************************************************************************)
\* The files do not change and the calls change nothing: what a call
\* returns does not depend on the calls before it.  A behaviour opens once
\* and makes one call on the Repository it got.
CallOpenRepository ==
    /\ ret = NoCall
    /\ \E path \in Paths :
        \E r \in {OpenRepository(disk, path)} :
        /\ ret' = [op |-> "OpenRepository", path |-> path, out |-> r.out, err |-> r.err,
                   repo |-> r.repo, opened |-> r.opened]
        /\ repos' = IF r.out = "ok" THEN r.repo ELSE repos
        /\ UNCHANGED <<disk, idx, pooled>>

\* the values a call on the repository returned, and what it did
Returned(op, oid, r) ==
    [op |-> op, oid |-> oid, out |-> r.res.out, ot |-> r.res.ot, length |-> r.res.length,
     data |-> r.res.data, err |-> r.res.err, reads |-> r.res.reads,
     inflates |-> r.res.inflates, zreads |-> r.res.zreads, consulted |-> r.consulted,
     loose |-> r.loose, sizeonly |-> r.sizeonly]

CallGetRawObject ==
    /\ ret.op = "OpenRepository"
    /\ ~repos.nil
    /\ \E oid \in Oids :
         \E r \in {getRawObject(disk, repos, oid)} : ret' = Returned("getRawObject", oid, r)
    /\ UNCHANGED <<disk, repos, idx, pooled>>

CallType ==
    /\ ret.op = "OpenRepository"
    /\ ~repos.nil
    /\ \E oid \in Oids :
         \E r \in {Type(disk, repos, oid)} : ret' = Returned("Type", oid, r)
    /\ UNCHANGED <<disk, repos, idx, pooled>>

CallObjectSize ==
    /\ ret.op = "OpenRepository"
    /\ ~repos.nil
    /\ \E oid \in Oids :
         \E r \in {ObjectSize(disk, repos, oid)} : ret' = Returned("ObjectSize", oid, r)
    /\ UNCHANGED <<disk, repos, idx, pooled>>

Init ==
    /\ \E cs \in RepoIdxSeqs, lf \in LooseFiles(IdCatalogue[2]) :
         disk = [root |-> "dir",
                 idxs |-> [k \in 1..Len(cs) |->
                             IdxFile(k, cs[k].p, cs[k].offs, RepoPack, cs[k].variant)],
                 loose |-> << lf >>]
    /\ repos = NilPtr
    /\ idx = NilPtr
    /\ calls = <<>>
    /\ zlibReaderPool = {}
    /\ zreaders = <<>>
    /\ fds = {}
    /\ ret = NoCall

Next == CallOpenRepository \/ CallGetRawObject \/ CallType \/ CallObjectSize

Spec == Init /\ [][Next]_vars

(***************************************************************************)
(* Claims about the calls on a repository.                                 *)
(***************************************************************************)
\* the indexes of the open repository whose offsetForSHA(oid) is not 0
Holders(oid) ==
    {i \in 1..Len(repos.indexfiles) : offsetForSHA(repos.indexfiles[i], oid) # Zero64}

\* what ret carries of a reader's result r
SameResult(r) ==
    /\ ret.out = r.out
    /\ ret.ot = r.ot
    /\ ret.length = r.length
    /\ ret.data = r.data
    /\ ret.err = r.err

\* C3: getRawObject dispatches in a fixed order. When the loose file of the
\* identifier exists, the result is the loose reader's and no index is
\* consulted. When it does not exist, the indexes are asked in the order
\* they were opened and the object is read from the pack of the first one
\* whose offsetForSHA is not 0; when none has it, the result is the
\* object-not-found error with no data.
C3_DispatchOrder ==
    ret.op = "getRawObject" =>
      LET f == LooseAt(disk, ret.oid)
          hits == Holders(ret.oid)
      IN
      /\ f.state = "file" =>
           /\ ret.consulted = <<>>
           /\ ret.loose
           /\ SameResult(readObjectFile(f, FALSE))
      /\ (f.state = "absent" /\ hits = {}) =>
           /\ ret.consulted = [i \in 1..Len(repos.indexfiles) |-> i]
           /\ ret.out = "err"
           /\ ret.err = errObjNotFound
           /\ ret.data = <<>>
      /\ (f.state = "absent" /\ hits # {}) =>
           LET k == CHOOSE i \in hits : \A j \in hits : i <= j
               ix == repos.indexfiles[k]
           IN /\ ret.consulted = [i \in 1..k |-> i]
              /\ ~ret.loose
              /\ SameResult(readObjectBytes(PackAt(disk, ix.packpath),
                                            offsetInt(offsetForSHA(ix, ret.oid)), FALSE))

\* C3 happens: the loose file is absent, the first index does not hold the
\* identifier, the second does and its pack supplies the object
C3_Witness ==
    /\ ret.op = "getRawObject"
    /\ LooseAt(disk, ret.oid).state = "absent"
    /\ ret.consulted = <<1, 2>>
    /\ ret.out = "ok"

\* C3 happens too with a loose file and an index that holds the identifier
C3_WitnessLoose ==
    /\ ret.op = "getRawObject"
    /\ ret.loose
    /\ ret.out = "ok"
    /\ Holders(ret.oid) # {}

(***************************************************************************)
(* Claims about the pack reader.                                           *)
(***************************************************************************)
\* the pack file the pack reader was called on
CalledPack == disk.idxs[1].pack

\* the objects of the called pack that start at the offset of the call
ObjectsAt(offset) == {k \in 1..Len(CalledPack.starts) : CalledPack.starts[k] = offset}

\* the result size a delta stream announces: its second base-128 number
AnnouncedSize(delta) ==
    LET baseLen == readLittleEndianBase128Number(delta, 0) IN
    readLittleEndianBase128Number(delta, baseLen.read).value

\* C4: for an offset-delta object readObjectBytes returns the type of the
\* base object and a length equal to the size of the reconstructed object,
\* the second base-128 number of the inflated delta stream, for sizeonly
\* true and for sizeonly false alike; with sizeonly false the data are the
\* reconstructed bytes.
C4_DeltaLengthIsReconstructedSize ==
    (ret.op = "readObjectBytes" /\ ret.out = "ok") =>
      \A k \in ObjectsAt(ret.offset) :
        CalledPack.objs[k].raw = OffsetDelta =>
          /\ ret.ot \in {ObjectCommit, ObjectTree, ObjectBlob, ObjectTag}
          /\ ret.length = AnnouncedSize(CalledPack.objs[k].data)
          /\ ~ret.sizeonly => Len(ret.data) = ret.length

\* what the code does for an offset delta: with sizeonly true the length is
\* the announced size, with sizeonly false it is the inflated size of the
\* delta stream, next to data of the announced size
C4_LengthBySizeonly ==
    (ret.op = "readObjectBytes" /\ ret.out = "ok") =>
      \A k \in ObjectsAt(ret.offset) :
        CalledPack.objs[k].raw = OffsetDelta =>
          /\ ret.sizeonly => ret.length = AnnouncedSize(CalledPack.objs[k].data)
          /\ ~ret.sizeonly =>
               /\ ret.length = Len(CalledPack.objs[k].data)
               /\ Len(ret.data) = AnnouncedSize(CalledPack.objs[k].data)

\* an offset delta was read in full and came back with the delta stream's
\* size as its length
C4_Witness ==
    /\ ret.op = "readObjectBytes"
    /\ ret.out = "ok"
    /\ ~ret.sizeonly
    /\ \E k \in ObjectsAt(ret.offset) : CalledPack.objs[k].raw = OffsetDelta
    /\ ret.length = 7
    /\ Len(ret.data) = 4

\* C9: readObjectBytes at an offset whose first byte has the raw type 0x70
\* (id delta) returns the unsupported-encoding error "not implemented yet"
\* with no data; it opens the pack once, reads no base object and inflates
\* nothing.
C9_IdDeltaUnsupported ==
    (/\ ret.op = "readObjectBytes"
     /\ ret.offset < Len(CalledPack.bytes)
     /\ (CalledPack.bytes[ret.offset + 1] \div 16) % 8 = 7) =>
      /\ ret.out = "err"
      /\ ret.err = "not implemented yet"
      /\ ret.data = <<>>
      /\ ret.reads = <<ret.offset>>
      /\ ret.inflates = <<>>

\* C9 happens: the call was made at the start of an id-delta object that
\* follows another object
C9_Witness ==
    /\ ret.op = "readObjectBytes"
    /\ ret.err = "not implemented yet"
    /\ \E k \in ObjectsAt(ret.offset) : k > 1 /\ CalledPack.objs[k].raw = IdDelta

(***************************************************************************)
(* Claims about the calls on a repository, continued.                      *)
(***************************************************************************)
TrueTypes == {ObjectCommit, ObjectTree, ObjectBlob, ObjectTag}

\* C5: whenever getRawObject (and with it the pack reader or the loose
\* reader it returns the result of) returns without error, the type it
\* returns is one of Commit, Tree, Blob, Tag.
C5_TypeIsOneOfFour ==
    (ret.op = "getRawObject" /\ ret.out = "ok") => ret.ot \in TrueTypes

\* getRawObject returned the loose object "blub 3\0abc" without error, with
\* the type 0
C5_Witness ==
    /\ ret.op = "getRawObject"
    /\ ret.out = "ok"
    /\ ret.loose
    /\ LooseAt(disk, ret.oid).content = LooseBlub
    /\ ret.ot = 0
    /\ ret.data = <<97, 98, 99>>

\* the pack reader's part of C5: a call of readObjectBytes that returns
\* without error returns one of the four types
C5_PackTypeIsOneOfFour ==
    (ret.op = "readObjectBytes" /\ ret.out = "ok") => ret.ot \in TrueTypes

\* the call found the identifier in a pack, as an object that is no delta,
\* and read it without error
NonDeltaFromPack ==
    /\ ~ret.loose
    /\ ret.out = "ok"
    /\ Len(ret.reads) = 1

\* C6 as stated: ObjectSize and Type call the readers with sizeonly true,
\* so that for an object that is no delta neither of them inflates the
\* payload.
C6_SizeOnlyInBoth ==
    (ret.op \in {"ObjectSize", "Type"} /\ NonDeltaFromPack) =>
      /\ ret.inflates = <<>>
      /\ ret.sizeonly

\* C6 as the code has it: ObjectSize and Type consult the loose file and
\* the indexes as getRawObject does; ObjectSize calls the readers with
\* sizeonly true, inflates nothing of an object that is no delta and reads
\* a loose file once; Type returns the type getRawObject returns, calls the
\* readers with sizeonly false and inflates the whole payload of an object
\* that is no delta.
C6_SizeOnlyInObjectSizeOnly ==
    ret.op \in {"ObjectSize", "Type"} =>
      LET gr == getRawObject(disk, repos, ret.oid)
          g == gr.res
      IN
      /\ ret.loose = gr.loose
      /\ ret.consulted = gr.consulted
      /\ ret.op = "ObjectSize" =>
           /\ ret.sizeonly
           /\ NonDeltaFromPack => (ret.inflates = <<>> /\ ret.length = g.length)
           /\ ret.loose => ret.zreads <= 1
      /\ ret.op = "Type" =>
           /\ ~ret.sizeonly
           /\ ret.out = "ok" => ret.ot = g.ot
           /\ NonDeltaFromPack =>
                (Len(ret.inflates) = 1 /\ ret.inflates[1].size = Len(g.data))

\* C6 happens: Type found a packed commit and inflated its 17 bytes
C6_Witness ==
    /\ ret.op = "Type"
    /\ NonDeltaFromPack
    /\ ret.ot = ObjectCommit
    /\ Len(ret.inflates) = 1
    /\ ret.inflates[1].size = 17

\* C6 happens: ObjectSize found the same commit and inflated nothing
C6_WitnessObjectSize ==
    /\ ret.op = "ObjectSize"
    /\ NonDeltaFromPack
    /\ ret.length = 17
    /\ ret.inflates = <<>>

CanSupply(i, oid, sizeonly) ==
    LET ix == repos.indexfiles[i] IN
    /\ offsetForSHA(ix, oid) # Zero64
    /\ readObjectBytes(PackAt(disk, ix.packpath), offsetInt(offsetForSHA(ix, oid)),
                       sizeonly).out = "ok"

\* C8 as stated: in getRawObject and ObjectSize, when the object cannot be
\* had through one index the later indexes are still consulted, and the
\* object is returned if one of them can supply it.
C8_LaterIndexSupplies ==
    (/\ ret.op \in {"getRawObject", "ObjectSize"}
     /\ LooseAt(disk, ret.oid).state = "absent"
     /\ \E i \in 1..Len(repos.indexfiles) : CanSupply(i, ret.oid, ret.sizeonly)) =>
      ret.out = "ok"

\* C8 as the code has it: an index that does not hold the identifier
\* (offsetForSHA is 0) passes the lookup on to the next index; the first
\* index that holds it ends the lookup, and when its pack cannot supply the
\* object that error is the result and no later index is consulted.
C8_MissProceedsErrorReturns ==
    (/\ ret.op \in {"getRawObject", "ObjectSize"}
     /\ LooseAt(disk, ret.oid).state = "absent") =>
      LET hits == Holders(ret.oid) IN
      /\ \A i \in 1..Len(repos.indexfiles) :
           (\A j \in 1..i : j \notin hits) => \E c \in 1..Len(ret.consulted) : ret.consulted[c] = i
      /\ \A i \in hits :
           (\A j \in 1..(i - 1) : j \notin hits) =>
             /\ ret.consulted[Len(ret.consulted)] = i
             /\ ret.out = "ok" <=> CanSupply(i, ret.oid, ret.sizeonly)
             /\ ret.out # "ok" => ret.err # Nil

\* C8 happens: the pack of the first index could not supply the object, the
\* second index could have, and the error of the first is the result
C8_Witness ==
    /\ ret.op = "getRawObject"
    /\ LooseAt(disk, ret.oid).state = "absent"
    /\ ret.consulted = <<1>>
    /\ ret.out = "err"
    /\ Len(repos.indexfiles) = 2
    /\ CanSupply(2, ret.oid, FALSE)

(***************************************************************************)
(* Calls of the loose object reader.                                       *)
(***************************************************************************)
\* the longest payload, and the largest declared length, of a generated
\* loose object
MaxPayload == 3

\* the type tokens of the generated loose objects: the four the reader
\* knows, "blub", "Blob" and the empty token
LooseTokens ==
    { <<98, 108, 111, 98>>, <<116, 114, 101, 101>>, <<99, 111, 109, 109, 105, 116>>,
      <<116, 97, 103>>, <<98, 108, 117, 98>>, <<66, 108, 111, 98>>, <<>> }

\* "<token> <declared>\0" and then length payload bytes
LooseContent(token, declared, length) ==
    token \o <<32, 48 + declared, 0>> \o [i \in 1..length |-> 96 + i]

\* the loose files the reader is called on: every token with every declared
\* and actual payload length, a file that is no zlib stream, an empty
\* stream, a header without a space, and no file
LooseCatalogue ==
    { [oid |-> IdCatalogue[2], state |-> "file", zlibOk |-> TRUE,
       content |-> LooseContent(t, d, n)] :
         t \in LooseTokens, d \in 0..MaxPayload, n \in 0..MaxPayload }
    \cup LooseFiles(IdCatalogue[2])
    \cup { [oid |-> IdCatalogue[2], state |-> "file", zlibOk |-> TRUE, content |-> c] :
             c \in { <<>>, <<98, 108, 111, 98>> } }

\* readObjectFile(path, sizeonly) on the loose file of the disk; the result
\* is a function of the file and the argument, so one call ends the
\* behaviour
ReadObjectFile ==
    /\ ret = NoCall
    /\ \E sizeonly \in BOOLEAN :
         \E r \in {readObjectFile(disk.loose[1], sizeonly)} :
           ret' = [op |-> "readObjectFile", sizeonly |-> sizeonly, out |-> r.out,
                   ot |-> r.ot, length |-> r.length, data |-> r.data, err |-> r.err,
                   zreads |-> r.zreads]
    /\ UNCHANGED <<disk, repos, idx, pooled>>

InitLoose ==
    /\ \E f \in LooseCatalogue : disk = [root |-> "dir", idxs |-> <<>>, loose |-> << f >>]
    /\ repos = NilPtr
    /\ idx = NilPtr
    /\ calls = <<>>
    /\ zlibReaderPool = {}
    /\ zreaders = <<>>
    /\ fds = {}
    /\ ret = NoCall

NextLoose == ReadObjectFile

SpecLoose == InitLoose /\ [][NextLoose]_vars

(***************************************************************************)
(* Claims about the loose object reader.                                   *)
(***************************************************************************)
\* the loose file the reader was called on
CalledLoose == disk.loose[1]

\* the header of the called file has a type token, a space, digits and a NUL
HasHeader ==
    /\ CalledLoose.state = "file"
    /\ CalledLoose.zlibOk
    /\ \E i \in 1..Len(CalledLoose.content) : CalledLoose.content[i] = 32

\* the bytes before the first space of the called file
TypeToken ==
    LET c == CalledLoose.content
        sp == CHOOSE i \in 1..Len(c) : c[i] = 32 /\ \A j \in 1..(i - 1) : c[j] # 32
    IN SubSeq(c, 1, sp - 1)

KnownTokens ==
    { <<98, 108, 111, 98>>, <<116, 114, 101, 101>>, <<99, 111, 109, 109, 105, 116>>,
      <<116, 97, 103>> }

\* C11: readObjectFile returns the unknown-object-type error for every loose
\* object whose type token is not blob, tree, commit or tag, and returns a
\* type without an error only for those four tokens.
C11_UnknownTokenRejected ==
    (ret.op = "readObjectFile" /\ HasHeader) =>
      /\ TypeToken \notin KnownTokens => ret.out = "err"
      /\ ret.out = "ok" => (TypeToken \in KnownTokens /\ ret.ot \in TrueTypes)

\* the loose object "blub 3\0abc" was read in full and came back without an
\* error, with the type 0
C11_Witness ==
    /\ ret.op = "readObjectFile"
    /\ CalledLoose.content = LooseBlub
    /\ ~ret.sizeonly
    /\ ret.out = "ok"
    /\ ret.ot = 0
    /\ ret.data = <<97, 98, 99>>

(***************************************************************************)
(* The delta engine of the older variant of the package, and calls of      *)
(* both engines.                                                           *)
(***************************************************************************)
\* the loop of the older applyDelta: the same copy and insert modes; an
\* opcode 0 calls log.Fatal, which ends the process ("exit")
RECURSIVE applyDeltaOlderLoop(_, _, _, _, _)
applyDeltaOlderLoop(prog, base, resultLen, zpos, written) ==
    LET panic == [out |-> "panic", data |-> <<>>, err |-> "index out of range"] IN
    IF ~(zpos < Len(prog))
    THEN [out |-> "ok", data |-> written \o Zeros(resultLen - Len(written)), err |-> Nil]
    ELSE
      LET opcode == prog[zpos + 1] IN
      IF opcode >= 128 THEN
          LET a == copyArgs(prog, zpos + 1, opcode, 0, 0, 0) IN
          IF a.out = "panic" THEN panic
          ELSE IF \/ a.copy_offset + a.copy_length > Len(base)
                  \/ Len(written) + a.copy_length > resultLen
          THEN panic
          ELSE applyDeltaOlderLoop(prog, base, resultLen, a.zpos,
                   written \o Slice(base, a.copy_offset, a.copy_offset + a.copy_length))
      ELSE IF opcode > 0 THEN
          IF \/ zpos + 1 + opcode > Len(prog)
             \/ Len(written) + opcode > resultLen
          THEN panic
          ELSE applyDeltaOlderLoop(prog, base, resultLen, zpos + 1 + opcode,
                   written \o Slice(prog, zpos + 1, zpos + 1 + opcode))
      ELSE [out |-> "exit", data |-> <<>>, err |-> "opcode == 0"]

\* applyDelta(b, base, resultLen) of the older variant
applyDeltaOlder(prog, base, resultLen) == applyDeltaOlderLoop(prog, base, resultLen, 0, <<>>)

\* most instructions in a generated delta, and the largest result length
MaxInstr == 2
MaxResultLen == 4

\* The instructions of the generated deltas, each with its encoding enc:
\* copies inside and outside a base of three bytes, a copy without length
\* byte (65536 bytes), inserts, the opcode 0, and an insert cut short.
DeltaInstrs ==
    { [kind |-> "copy", off |-> 0, len |-> 2, enc |-> <<144, 2>>],
      [kind |-> "copy", off |-> 1, len |-> 2, enc |-> <<145, 1, 2>>],
      [kind |-> "copy", off |-> 2, len |-> 3, enc |-> <<145, 2, 3>>],
      [kind |-> "copy", off |-> 0, len |-> 65536, enc |-> <<128>>],
      [kind |-> "insert", off |-> 0, len |-> 1, enc |-> <<1, 9>>],
      [kind |-> "insert", off |-> 0, len |-> 2, enc |-> <<2, 8, 9>>],
      [kind |-> "zero", off |-> 0, len |-> 0, enc |-> <<0>>],
      [kind |-> "cut", off |-> 0, len |-> 3, enc |-> <<3, 7>>] }

DeltaBases == { <<>>, <<11, 12, 13>> }

\* the encodings of the instructions ins, end to end
RECURSIVE Encode(_)
Encode(ins) == IF ins = <<>> THEN <<>> ELSE Head(ins).enc \o Encode(Tail(ins))

\* a pack with the base as a blob and, as an offset delta on it, the delta
\* stream: base size, result size, instructions
DeltaPack(base, resultLen, ins) ==
    PackFile(<< [raw |-> ObjectBlob, data |-> base, back |-> "none", ins |-> <<>>],
                [raw |-> OffsetDelta, data |-> <<Len(base), resultLen>> \o Encode(ins),
                 back |-> "prev", ins |-> ins] >>)

\* the arguments readObjectBytes hands to applyDelta for the delta object of
\* the pack pk: the delta stream after its two sizes, the base, the result
\* size
DeltaArgs(pk) ==
    LET b == pk.objs[2].data
        n1 == readLittleEndianBase128Number(b, 0)
        n2 == readLittleEndianBase128Number(b, n1.read)
    IN [b |-> Slice(b, n1.read + n2.read, Len(b)), base |-> pk.objs[1].data,
        resultLen |-> n2.value]

\* applyDelta on the delta object of the pack on disk
ApplyDelta ==
    /\ ret = NoCall
    /\ \E a \in {DeltaArgs(disk.idxs[1].pack)} :
         \E r \in {applyDelta(a.b, a.base, a.resultLen)} :
           ret' = [op |-> "applyDelta", b |-> a.b, base |-> a.base,
                   resultLen |-> a.resultLen, out |-> r.out, data |-> r.data,
                   err |-> r.err]
    /\ UNCHANGED <<disk, repos, idx, pooled>>

\* the older applyDelta on the same arguments
ApplyDeltaOlder ==
    /\ ret = NoCall
    /\ \E a \in {DeltaArgs(disk.idxs[1].pack)} :
         \E r \in {applyDeltaOlder(a.b, a.base, a.resultLen)} :
           ret' = [op |-> "applyDeltaOlder", b |-> a.b, base |-> a.base,
                   resultLen |-> a.resultLen, out |-> r.out, data |-> r.data,
                   err |-> r.err]
    /\ UNCHANGED <<disk, repos, idx, pooled>>

InitDelta ==
    /\ \E base \in DeltaBases, resultLen \in 0..MaxResultLen,
          ins \in UNION { SeqsOf(DeltaInstrs, n) : n \in 0..MaxInstr } :
         disk = [root |-> "dir",
                 idxs |-> << IdxFile(1, <<>>, <<>>, DeltaPack(base, resultLen, ins), "ok") >>,
                 loose |-> <<>>]
    /\ repos = NilPtr
    /\ idx = NilPtr
    /\ calls = <<>>
    /\ zlibReaderPool = {}
    /\ zreaders = <<>>
    /\ fds = {}
    /\ ret = NoCall

NextDelta == ApplyDelta \/ ApplyDeltaOlder

SpecDelta == InitDelta /\ [][NextDelta]_vars

(***************************************************************************)
(* Claims about the delta engine.                                          *)
(***************************************************************************)
\* the instructions of the delta object the engine was called on
CalledInstrs == disk.idxs[1].pack.objs[2].ins

\* what becomes of the instructions ins on a base of baseLen bytes and a
\* result of resultLen bytes, `written' bytes having been written: the kind
\* of the first instruction that cannot be carried out ("copy" or "insert"
\* out of bounds, "cut", "zero"), or "none", and the bytes written before it
RECURSIVE Fault(_, _, _, _)
Fault(ins, baseLen, resultLen, written) ==
    IF ins = <<>> THEN [kind |-> "none", written |-> written]
    ELSE LET i == Head(ins) IN
         IF i.kind \in {"zero", "cut"} THEN [kind |-> i.kind, written |-> written]
         ELSE IF \/ written + i.len > resultLen
                 \/ i.kind = "copy" /\ i.off + i.len > baseLen
         THEN [kind |-> i.kind, written |-> written]
         ELSE Fault(Tail(ins), baseLen, resultLen, written + i.len)

CalledFault == Fault(CalledInstrs, Len(ret.base), ret.resultLen, 0)

\* C12: whenever a copy instruction of the delta is out of bounds (its range
\* is not inside the base, or its bytes do not fit in the result of
\* result_len bytes), applyDelta returns an error and no result; it does
\* not abort.
C12_CopyOutOfBoundsIsError ==
    (ret.op = "applyDelta" /\ CalledFault.kind = "copy")
        => (ret.out = "err" /\ ret.data = <<>>)

\* a call whose delta has an in-bounds instruction and then a copy that
\* leaves the base
C12_Witness ==
    /\ ret.op = "applyDelta"
    /\ CalledFault.kind = "copy"
    /\ CalledFault.written > 0
    /\ Len(ret.base) = 3

\* C13: applyDelta returns an error whenever the instructions of the delta
\* wrote a number of bytes other than result_len; it returns a result only
\* when they wrote exactly result_len bytes.
C13_LengthMismatchIsError ==
    ret.op = "applyDelta" =>
        /\ (CalledFault.kind = "none" /\ CalledFault.written # ret.resultLen)
               => (ret.out = "err" /\ ret.data = <<>>)
        /\ ret.out = "ok"
               => (CalledFault.kind = "none" /\ CalledFault.written = ret.resultLen)

\* a call whose delta runs to its end having written some bytes, fewer than
\* result_len
C13_Witness ==
    /\ ret.op = "applyDelta"
    /\ CalledFault.kind = "none"
    /\ CalledFault.written > 0
    /\ CalledFault.written < ret.resultLen

\* the engine agrees with the instructions it was given: a delta without a
\* faulty instruction yields the bytes its instructions name
C13_EngineFollowsInstrs ==
    (ret.op \in {"applyDelta", "applyDeltaOlder"} /\ CalledFault.kind = "none")
        => (ret.out = "ok" /\ Len(ret.data) = ret.resultLen)

\* C14: when the engine reads an opcode byte 0 at an instruction boundary,
\* whatever instructions came before it, applyDelta (in either variant)
\* returns an error and no result to its caller; the process goes on.
C14_OpcodeZeroIsError ==
    (ret.op \in {"applyDelta", "applyDeltaOlder"} /\ CalledFault.kind = "zero")
        => (ret.out = "err" /\ ret.data = <<>>)

\* the same of the current variant alone
C14_OpcodeZeroIsErrorCurrent ==
    (ret.op = "applyDelta" /\ CalledFault.kind = "zero")
        => (ret.out = "err" /\ ret.data = <<>> /\ ret.err = "opcode == 0")

\* a call of the older variant that meets an opcode 0 after an instruction
\* that wrote bytes
C14_Witness ==
    /\ ret.op = "applyDeltaOlder"
    /\ CalledFault.kind = "zero"
    /\ CalledFault.written > 0

(***************************************************************************)
(* Object identifiers (oid.go).  Strings are sequences of character codes. *)
(***************************************************************************)
\* hextable of encoding/hex: "0123456789abcdef"
hextable == <<48, 49, 50, 51, 52, 53, 54, 55, 56, 57, 97, 98, 99, 100, 101, 102>>

\* hex.EncodeToString: two characters of hextable for each byte
EncodeToString(src) ==
    [i \in 1..(2 * Len(src)) |->
        IF i % 2 = 1 THEN hextable[(src[(i + 1) \div 2] \div 16) + 1]
        ELSE hextable[(src[i \div 2] % 16) + 1]]

\* the value of a hex digit for a lower-case-only decoder; 255 for others
fromHexChar_LowerOnly(c) ==
    IF c >= 48 /\ c <= 57 THEN c - 48
    ELSE IF c >= 97 /\ c <= 102 THEN c - 97 + 10
    ELSE 255

\* reverseHexTable of encoding/hex: the value of a hex digit in either
\* case; 255 for every other character
fromHexChar(c) ==
    IF c >= 48 /\ c <= 57 THEN c - 48
    ELSE IF c >= 97 /\ c <= 102 THEN c - 97 + 10
    ELSE IF c >= 65 /\ c <= 70 THEN c - 65 + 10
    ELSE 255

\* hex.Decode of src (of even length): the bytes decoded pair by pair, or
\* the error of the first character that is no hex digit
Decode(src) ==
    IF \E i \in 1..Len(src) : fromHexChar(src[i]) > 15
    THEN [out |-> "err", bytes |-> <<>>, err |-> "encoding/hex: invalid byte"]
    ELSE [out |-> "ok", err |-> Nil,
          bytes |-> [i \in 1..(Len(src) \div 2) |->
                        16 * fromHexChar(src[2 * i - 1]) + fromHexChar(src[2 * i])]]

NilOid == [nil |-> TRUE]

\* NewOid(b)
NewOid(b) ==
    IF Len(b) # IdLen
    THEN [out |-> "err", oid |-> NilOid, err |-> "Length must be 20"]
    ELSE [out |-> "ok", oid |-> [nil |-> FALSE, Bytes |-> b], err |-> Nil]

\* NewOidFromByteString(b)
NewOidFromByteString(b) ==
    IF Len(b) # 2 * IdLen
    THEN [out |-> "err", oid |-> NilOid, err |-> "bad hex-encoded sha1 length"]
    ELSE LET d == Decode(b) IN
         IF d.out # "ok"
         THEN [out |-> "err", oid |-> NilOid, err |-> d.err]
         ELSE [out |-> "ok", oid |-> [nil |-> FALSE, Bytes |-> d.bytes], err |-> Nil]

\* NewOidFromString(sha1)
NewOidFromString(sha1) == NewOidFromByteString(sha1)

\* o.String(); a nil receiver is dereferenced
String(o) == IF o.nil THEN "panic" ELSE EncodeToString(o.Bytes)

\* o.Equal(oid2)
Equal(o, oid2) ==
    IF o.nil \/ oid2.nil THEN "panic" ELSE o.Bytes = oid2.Bytes

\* positions of a generated value or string that vary
MaxVaried == 2

\* bytes at the ends of the range and around the digit boundaries
ByteSamples == {0, 9, 10, 15, 16, 171, 201, 255}

\* the digits in both cases and the characters next to their ranges:
\* '/', ':', '@', 'G', '`', 'g'
HexChars == (48..57) \cup (65..70) \cup (97..102)
CharSamples == HexChars \cup {47, 58, 64, 71, 96, 103}

\* byte values of length n: the first MaxVaried and the last one vary
ByteValues(n) ==
    { lead \o [i \in 1..(n - MaxVaried - 1) |-> (200 + i) % 256] \o <<last>> :
        lead \in SeqsOf(ByteSamples, MaxVaried), last \in {0, 255} }

\* strings of length n: the first MaxVaried characters and the last one vary
CharStrings(n) ==
    { lead \o [i \in 1..(n - MaxVaried - 1) |-> hextable[(i % 16) + 1]] \o <<last>> :
        lead \in SeqsOf(CharSamples, MaxVaried), last \in {48, 70, 102, 103} }

\* NewOid(b) and NewOidFromString of the hex encoding of b, their strings
\* and their comparison
CallNewOid ==
    /\ ret.op = "args" /\ ret.kind = "bytes"
    /\ \E r \in {NewOid(ret.arg)}, s \in {NewOidFromString(EncodeToString(ret.arg))} :
         ret' = [op |-> "NewOid", arg |-> ret.arg, out |-> r.out, oid |-> r.oid,
                 err |-> r.err, str |-> String(r.oid),
                 out2 |-> s.out, oid2 |-> s.oid, str2 |-> String(s.oid),
                 equal |-> Equal(r.oid, s.oid)]
    /\ UNCHANGED <<disk, repos, idx, pooled>>

\* NewOidFromString(h) and the string of the identifier
CallNewOidFromString ==
    /\ ret.op = "args" /\ ret.kind = "string"
    /\ \E r \in {NewOidFromString(ret.arg)} :
         ret' = [op |-> "NewOidFromString", arg |-> ret.arg, out |-> r.out,
                 oid |-> r.oid, err |-> r.err, str |-> String(r.oid)]
    /\ UNCHANGED <<disk, repos, idx, pooled>>

InitOid ==
    /\ disk = [root |-> "dir", idxs |-> <<>>, loose |-> <<>>]
    /\ repos = NilPtr
    /\ idx = NilPtr
    /\ calls = <<>>
    /\ zlibReaderPool = {}
    /\ zreaders = <<>>
    /\ fds = {}
    /\ \/ \E n \in {IdLen - 1, IdLen, IdLen + 1} : \E b \in ByteValues(n) :
            ret = [op |-> "args", kind |-> "bytes", arg |-> b]
       \/ \E n \in {2 * IdLen - 1, 2 * IdLen, 2 * IdLen + 1} : \E h \in CharStrings(n) :
            ret = [op |-> "args", kind |-> "string", arg |-> h]

NextOid == CallNewOid \/ CallNewOidFromString

SpecOid == InitOid /\ [][NextOid]_vars

(***************************************************************************)
(* Claims about object identifiers.                                        *)
(***************************************************************************)
LowerHexChars == (48..57) \cup (97..102)

\* the number a lower-case hex digit stands for
DigitValue(c) == IF c <= 57 THEN c - 48 ELSE c - 87

\* h is the lower-case hex encoding of the bytes b
IsLowerHexOf(h, b) ==
    /\ Len(h) = 2 * Len(b)
    /\ \A i \in 1..Len(h) : h[i] \in LowerHexChars
    /\ \A i \in 1..Len(b) : b[i] = 16 * DigitValue(h[2 * i - 1]) + DigitValue(h[2 * i])

ToLower(h) == [i \in 1..Len(h) |-> IF h[i] >= 65 /\ h[i] <= 90 THEN h[i] + 32 ELSE h[i]]

\* C15: for a value b of 20 bytes, NewOid(b) and NewOidFromString(hex(b))
\* both succeed and are Equal, and String() of either is the 40-character
\* lower-case hex encoding of b; for a string h of 40 hex digits in either
\* case, NewOidFromString(h) succeeds and its String() is h in lower case.
C15_OidRoundTrip ==
    /\ (ret.op = "NewOid" /\ Len(ret.arg) = IdLen) =>
          /\ ret.out = "ok" /\ ret.out2 = "ok"
          /\ ret.equal = TRUE
          /\ ret.oid.Bytes = ret.arg
          /\ Len(ret.str) = 40
          /\ IsLowerHexOf(ret.str, ret.arg)
          /\ ret.str2 = ret.str
    /\ (ret.op = "NewOidFromString" /\ Len(ret.arg) = 2 * IdLen
          /\ \A i \in 1..Len(ret.arg) : ret.arg[i] \in HexChars) =>
          /\ ret.out = "ok"
          /\ ret.str = ToLower(ret.arg)

\* a string with digits in both cases has been made an identifier
C15_Witness ==
    /\ ret.op = "NewOidFromString"
    /\ Len(ret.arg) = 2 * IdLen
    /\ ret.out = "ok"
    /\ ret.arg[1] = 70 /\ ret.arg[2] = 97 /\ ret.arg[2 * IdLen] = 70

\* a value of 20 bytes has been made an identifier both ways
C15_WitnessBytes ==
    /\ ret.op = "NewOid"
    /\ Len(ret.arg) = IdLen
    /\ ret.arg[1] = 171 /\ ret.arg[2] = 9
    /\ ret.equal = TRUE

(***************************************************************************)
(* getRawObject in several goroutines at once.  The goroutines share the   *)
(* Repository, the files and zlibReaderPool.  The index lookup and the     *)
(* reads of object headers go through files each call opens for itself;    *)
(* every inflation goes through readCompressedDataFromFile, whose steps    *)
(* are the actions below.                                                  *)
(***************************************************************************)
\* most goroutines in one behaviour
MaxCalls == 2

\* a Get that hands out a reader and leaves it in the pool
poolGet_KeepsReader(pool) ==
    { [z |-> 0, pool |-> pool] } \cup { [z |-> id, pool |-> pool] : id \in pool }

\* zlibReaderPool.Get(): one of the readers in the pool, taken out of it, or
\* nil (z = 0): a sync.Pool may be empty, and may drop what was put into it
poolGet(pool) ==
    { [z |-> 0, pool |-> pool] } \cup { [z |-> id, pool |-> pool \ {id}] : id \in pool }

\* the inflated content of the zlib stream at pos of the pack file, if one
\* starts there
StreamAt(file, pos) ==
    LET at == {k \in 1..Len(file.streams) : file.streams[k].pos = pos} IN
    IF at = {} THEN [ok |-> FALSE, data |-> <<>>]
    ELSE [ok |-> TRUE, data |-> file.streams[CHOOSE k \in at : TRUE].data]

\* what readObjectBytes makes of the buffers bufs its calls inflated, from
\* the innermost base (a whole object) outwards (deltas): each delta is
\* applied to the object rebuilt so far
RECURSIVE rebuild(_, _, _)
rebuild(bufs, j, acc) ==
    IF j > Len(bufs) THEN [out |-> "ok", data |-> acc, err |-> Nil]
    ELSE LET b == bufs[j]
             n1 == readLittleEndianBase128Number(b, 0)
             n2 == readLittleEndianBase128Number(b, n1.read)
         IN IF n1.out = "panic" \/ n2.out = "panic"
            THEN [out |-> "panic", data |-> <<>>, err |-> "index out of range"]
            ELSE LET d == applyDelta(Slice(b, n1.read + n2.read, Len(b)), acc, n2.value)
                 IN IF d.out # "ok" THEN d ELSE rebuild(bufs, j + 1, d.data)

\* go r.getRawObject(oid): the lookup and the header reads, which share
\* nothing; plan lists the streams the call has to inflate, in order
Go ==
    /\ ~repos.nil
    /\ Len(calls) < MaxCalls
    /\ \E oid \in Oids :
         \E r \in {getRawObject(disk, repos, oid)} :
           calls' = Append(calls,
              [oid |-> oid,
               pc |-> IF r.res.inflates = <<>> THEN "done" ELSE "get",
               path |-> IF r.consulted = <<>> THEN <<>>
                        ELSE repos.indexfiles[r.consulted[Len(r.consulted)]].packpath,
               plan |-> r.res.inflates, k |-> 1, z |-> 0, zbuf |-> <<>>, bufs |-> <<>>,
               out |-> r.res.out, ot |-> r.res.ot, length |-> r.res.length,
               data |-> IF r.res.inflates = <<>> THEN r.res.data ELSE <<>>,
               err |-> r.res.err])
    /\ UNCHANGED <<disk, repos, idx, ret, zlibReaderPool, zreaders, fds>>

\* file.Seek(start) on the call's own file and z := zlibReaderPool.Get()
Get(c) ==
    /\ calls[c].pc = "get"
    /\ \E g \in poolGet(zlibReaderPool) :
         /\ calls' = [calls EXCEPT ![c].z = g.z, ![c].pc = "set"]
         /\ zlibReaderPool' = g.pool
    /\ UNCHANGED <<disk, repos, idx, ret, zreaders, fds>>

\* z.Reset(file, nil) or zlib.NewReader(file): the reader is set on the
\* call's file at the position the call sought; a failed NewReader leaves
\* z nil and the call returns, a failed Reset returns through the Put
Set(c) ==
    /\ calls[c].pc = "set"
    /\ LET job == calls[c].plan[calls[c].k]
           ok == StreamAt(PackAt(disk, calls[c].path), job.pos).ok
           bound == [file |-> c, pos |-> job.pos, got |-> 0]
       IN IF calls[c].z = 0
          THEN IF ok
               THEN /\ zreaders' = Append(zreaders, bound)
                    /\ calls' = [calls EXCEPT ![c].z = Len(zreaders) + 1, ![c].pc = "read"]
               ELSE /\ zreaders' = zreaders
                    /\ calls' = [calls EXCEPT ![c].pc = "done", ![c].out = "err",
                                              ![c].err = "zlib: invalid header"]
          ELSE /\ zreaders' = [zreaders EXCEPT ![calls[c].z] = bound]
               /\ calls' = IF ok THEN [calls EXCEPT ![c].pc = "read"]
                           ELSE [calls EXCEPT ![c].pc = "put", ![c].out = "err",
                                              ![c].err = "zlib: invalid header"]
    /\ UNCHANGED <<disk, repos, idx, ret, zlibReaderPool, fds>>

\* one Read of io.ReadFull(rc, zbuf): the reader delivers the next bytes of
\* the stream it is set on, half of zbuf at the first Read and the rest at
\* the second
Read(c) ==
    /\ calls[c].pc = "read"
    /\ LET job == calls[c].plan[calls[c].k]
           rd == zreaders[calls[c].z]
           content == StreamAt(PackAt(disk, calls[rd.file].path), rd.pos).data
           want == IF calls[c].zbuf = <<>> THEN (job.size + 1) \div 2
                   ELSE job.size - Len(calls[c].zbuf)
           left == Len(content) - rd.got
           n == IF want < left THEN want ELSE left
           zbuf == calls[c].zbuf \o SubSeq(content, rd.got + 1, rd.got + n)
       IN /\ zreaders' = [zreaders EXCEPT ![calls[c].z].got = @ + n]
          /\ calls' =
               IF n < want
               THEN [calls EXCEPT ![c].pc = "put", ![c].out = "err",
                                  ![c].err = "unexpected EOF"]
               ELSE [calls EXCEPT ![c].zbuf = zbuf,
                                  ![c].pc = IF Len(zbuf) = job.size THEN "put" ELSE "read"]
    /\ UNCHANGED <<disk, repos, idx, ret, zlibReaderPool, fds>>

\* the deferred rc.Close() and zlibReaderPool.Put(z), and what the caller
\* does with the buffer: the next stream of the plan, or the result
Put(c) ==
    /\ calls[c].pc = "put"
    /\ zlibReaderPool' = zlibReaderPool \cup {calls[c].z}
    /\ LET bufs == Append(calls[c].bufs, calls[c].zbuf) IN
       calls' =
         IF calls[c].out = "err"
         THEN [calls EXCEPT ![c].pc = "done", ![c].z = 0]
         ELSE IF calls[c].k < Len(calls[c].plan)
         THEN [calls EXCEPT ![c].pc = "get", ![c].z = 0, ![c].k = @ + 1,
                            ![c].zbuf = <<>>, ![c].bufs = bufs]
         ELSE \* the last stream of the plan
              LET r == rebuild(bufs, 2, bufs[1]) IN
              [calls EXCEPT ![c].pc = "done", ![c].z = 0, ![c].bufs = bufs,
                            ![c].out = r.out, ![c].data = r.data, ![c].err = r.err]
    /\ UNCHANGED <<disk, repos, idx, ret, zreaders, fds>>

\* the index files of the repositories the goroutines read: one index for
\* a whole object and a delta on it, or one for a delta the reader refuses
PoolIdxSeqs ==
    { << [p |-> <<2, 3>>, offs |-> << <<0, 0, 0, 12>>, <<0, 0, 0, 16>> >>,
          variant |-> "ok"] >>,
      << [p |-> <<2>>, offs |-> << <<0, 0, 0, 20>> >>, variant |-> "ok"] >> }

InitPool ==
    /\ \E cs \in PoolIdxSeqs,
          lf \in {f \in LooseFiles(IdCatalogue[2]) :
                    f.state = "absent" \/ f.content = LooseBlob} :
         disk = [root |-> "dir",
                 idxs |-> [k \in 1..Len(cs) |->
                             IdxFile(k, cs[k].p, cs[k].offs, RepoPack, cs[k].variant)],
                 loose |-> << lf >>]
    /\ repos = NilPtr
    /\ idx = NilPtr
    /\ calls = <<>>
    /\ zlibReaderPool = {}
    /\ zreaders = <<>>
    /\ fds = {}
    /\ ret = NoCall

NextPool ==
    \/ CallOpenRepository
    \/ Go
    \/ \E c \in 1..Len(calls) : Get(c) \/ Set(c) \/ Read(c) \/ Put(c)

SpecPool == InitPool /\ [][NextPool]_vars

(***************************************************************************)
(* Claims about concurrent calls.                                          *)
(***************************************************************************)
\* the goroutines that hold a reader: between their Get and their Put
Holding == {c \in 1..Len(calls) : calls[c].pc \in {"set", "read", "put"} /\ calls[c].z # 0}

\* what the call of goroutine c returns when it runs alone
Alone(c) == getRawObject(disk, repos, calls[c].oid).res

\* C16: getRawObject calls that run at the same time on one Repository do
\* not disturb each other: each returns the type, length and bytes (and
\* error) it returns when run alone; a reader taken from zlibReaderPool is
\* held by one call at a time between its Get and its Put; and whenever a
\* call reads from its reader, the reader is set on that call's own file
\* at that call's own stream.
C16_ConcurrentCallsRaceFree ==
    /\ \A c \in 1..Len(calls) :
         calls[c].pc = "done" =>
           /\ calls[c].out = Alone(c).out
           /\ calls[c].ot = Alone(c).ot
           /\ calls[c].length = Alone(c).length
           /\ calls[c].data = Alone(c).data
           /\ calls[c].err = Alone(c).err
    /\ \A c1, c2 \in Holding : calls[c1].z = calls[c2].z => c1 = c2
    /\ \A c \in Holding : calls[c].z \notin zlibReaderPool
    /\ \A c \in 1..Len(calls) :
         calls[c].pc = "read" =>
           /\ zreaders[calls[c].z].file = c
           /\ zreaders[calls[c].z].pos = calls[c].plan[calls[c].k].pos
           /\ zreaders[calls[c].z].got = Len(calls[c].zbuf)

\* two calls have returned objects they inflated, the second through a
\* reader the first had put into the pool, while it was set on the first
\* call's file until its Reset
C16_Witness ==
    /\ Len(calls) = 2
    /\ calls[1].pc = "done" /\ calls[2].pc = "done"
    /\ calls[1].out = "ok" /\ calls[2].out = "ok"
    /\ calls[1].data # <<>> /\ calls[2].data # <<>>
    /\ calls[1].oid # calls[2].oid
    /\ Len(zreaders) = 1

\* two calls are inside readCompressedDataFromFile at the same time, each
\* with a reader of its own
C16_WitnessOverlap ==
    /\ Cardinality(Holding) = 2
    /\ \A c \in Holding : calls[c].pc = "read" /\ calls[c].zbuf # <<>>

(***************************************************************************)
(* References (oid.go).  Names and file contents are sequences of          *)
(* character codes.                                                        *)
(***************************************************************************)
\* the white space of bytes.TrimSpace and bytes.Fields: \t \n \v \f \r ' '
IsSpace(c) == c \in {9, 10, 11, 12, 13, 32}

\* the least and the greatest member of a set of positions
Least(S) == CHOOSE i \in S : \A j \in S : i <= j
Greatest(S) == CHOOSE i \in S : \A j \in S : i >= j

\* bytes.TrimSpace
TrimSpace(b) ==
    LET ink == {i \in 1..Len(b) : ~IsSpace(b[i])} IN
    IF ink = {} THEN <<>> ELSE SubSeq(b, Least(ink), Greatest(ink))

\* bytes.Fields: the maximal runs of characters that are no white space,
\* from position from on
RECURSIVE FieldsFrom(_, _)
FieldsFrom(b, from) ==
    LET ink == {i \in from..Len(b) : ~IsSpace(b[i])} IN
    IF ink = {} THEN <<>>
    ELSE LET lo == Least(ink)
             gaps == {i \in lo..Len(b) : IsSpace(b[i])}
             hi == IF gaps = {} THEN Len(b) ELSE Least(gaps) - 1
         IN << SubSeq(b, lo, hi) >> \o FieldsFrom(b, hi + 1)

Fields(b) == FieldsFrom(b, 1)

\* the tokens of bufio.Scanner with ScanLines, from position from on: the
\* lines of b without their line ends ("\n", or "\r\n"); a last line
\* without line end counts if it is not empty
RECURSIVE ScanLinesFrom(_, _)
ScanLinesFrom(b, from) ==
    LET dropCR(l) == IF l # <<>> /\ l[Len(l)] = 13 THEN SubSeq(l, 1, Len(l) - 1) ELSE l
        ends == {i \in from..Len(b) : b[i] = 10}
    IN IF from > Len(b) THEN <<>>
       ELSE IF ends = {} THEN << dropCR(SubSeq(b, from, Len(b))) >>
       ELSE << dropCR(SubSeq(b, from, Least(ends) - 1)) >> \o ScanLinesFrom(b, Least(ends) + 1)

ScanLines(b) == ScanLinesFrom(b, 1)

\* errRefNotFound
errRefNotFound == "ref not found"

\* findRef(r, ref) on the lines still to scan
RECURSIVE findRefLoop(_, _)
findRefLoop(lines, refb) ==
    IF lines = <<>> THEN [out |-> "err", sha1 |-> <<>>, err |-> errRefNotFound]
    ELSE LET line == TrimSpace(Head(lines)) IN
         IF Len(line) = 0 \/ line[1] = 35 THEN findRefLoop(Tail(lines), refb)
         ELSE LET ff == Fields(line) IN
              IF Len(ff) # 2 \/ Len(ff[1]) # 40 \/ refb # ff[2]
              THEN findRefLoop(Tail(lines), refb)
              ELSE [out |-> "ok", sha1 |-> ff[1], err |-> Nil]

\* findRef(r, ref) on a reader of content
findRef(content, ref) == findRefLoop(ScanLines(content), ref)

\* the file at path: its entry in d.files, or none
FileAt(d, path) ==
    LET at == {k \in 1..Len(d.files) : d.files[k].path = path} IN
    IF at = {} THEN [path |-> path, state |-> "absent", content |-> <<>>]
    ELSE d.files[CHOOSE k \in at : TRUE]

NilRef == [nil |-> TRUE]

\* resolveFrom(path, name)
resolveFrom(d, path, name) ==
    LET f == FileAt(d, path) IN
    IF f.state # "file" THEN [out |-> "err", ref |-> NilRef, err |-> "open"]
    ELSE LET s == findRef(f.content, name) IN
         IF s.out # "ok" THEN [out |-> "err", ref |-> NilRef, err |-> s.err]
         ELSE LET o == NewOidFromByteString(s.sha1) IN
              IF o.out # "ok" THEN [out |-> "err", ref |-> NilRef, err |-> o.err]
              ELSE [out |-> "ok", err |-> Nil,
                    ref |-> [nil |-> FALSE, Name |-> name, Oid |-> o.oid,
                             repository |-> FALSE]]

\* "info/refs" and "packed-refs"
InfoRefs == <<105, 110, 102, 111, 47, 114, 101, 102, 115>>
PackedRefs == <<112, 97, 99, 107, 101, 100, 45, 114, 101, 102, 115>>

\* a lookup that asks packed-refs before info/refs
refPaths_PackedFirst == <<PackedRefs, InfoRefs>>

\* the files LookupReference tries for a name that has no file, in order
refPaths == <<InfoRefs, PackedRefs>>

\* the loop over paths: the first path that resolves the name, or the error
\* of the last one
RECURSIVE resolveFromPaths(_, _, _)
resolveFromPaths(d, paths, name) ==
    LET r == resolveFrom(d, Head(paths), name) IN
    IF r.out = "ok" \/ Len(paths) = 1 THEN r ELSE resolveFromPaths(d, Tail(paths), name)

\* "ref: "
refColon == <<114, 101, 102, 58, 32>>

\* repos.LookupReference(name); seen holds the names of the calls this one
\* is nested in: reaching one of them again repeats the same call inside
\* itself, without end ("diverges")
RECURSIVE LookupReferenceRec(_, _, _, _)
LookupReferenceRec(d, rp, name, seen) ==
    LET f == FileAt(d, name) IN
    IF f.state = "absent" THEN resolveFromPaths(d, refPaths, name)
    ELSE IF f.state # "file" THEN [out |-> "err", ref |-> NilRef, err |-> "read"]
    ELSE LET b == TrimSpace(f.content) IN
         IF ~HasPrefix(b, refColon)
         THEN LET o == NewOidFromByteString(b) IN
              IF o.out # "ok" THEN [out |-> "err", ref |-> NilRef, err |-> o.err]
              ELSE [out |-> "ok", err |-> Nil,
                    ref |-> [nil |-> FALSE, Name |-> name, Oid |-> o.oid,
                             repository |-> TRUE]]
         ELSE LET dest == Slice(b, Len(refColon), Len(b)) IN
              IF dest \in seen \cup {name}
              THEN [out |-> "diverges", ref |-> NilRef, err |-> Nil]
              ELSE LookupReferenceRec(d, rp, dest, seen \cup {name})

LookupReference(d, rp, name) == LookupReferenceRec(d, rp, name, {})

(***************************************************************************)
(* Reference files on disk and calls of LookupReference.                   *)
(***************************************************************************)
\* most lines in a generated info/refs file
MaxLines == 2

\* the names asked for: "HEAD", "m" and "t"
NameHEAD == <<72, 69, 65, 68>>
NameM == <<109>>
NameT == <<116>>
RefNames == {NameHEAD, NameM, NameT}

\* 40 characters that are no hex string, 40 characters of a comment, and
\* 39 hex digits
Bad40 == <<103>> \o [i \in 1..39 |-> 48]
Hash40 == <<35>> \o [i \in 1..39 |-> 48]
Hex39 == [i \in 1..39 |-> 49]

\* a file that names another reference ("ref: <target>\n")
SymRef(path, target) ==
    [path |-> path, state |-> "file", content |-> refColon \o target \o <<10>>,
     kind |-> "symref", target |-> target, id |-> <<>>]

\* a file that holds text: the hex string of id in white space, or text
\* that is no identifier
ShaFile(path, text, id) ==
    [path |-> path, state |-> "file", content |-> <<32>> \o text \o <<13, 10>>,
     kind |-> "sha", target |-> <<>>, id |-> id]

\* the files a repository may have under the name HEAD and under the name m
HeadFiles ==
    { <<>>,
      << SymRef(NameHEAD, NameM) >>,
      << SymRef(NameHEAD, NameHEAD) >>,
      << ShaFile(NameHEAD, EncodeToString(IdCatalogue[2]), IdCatalogue[2]) >>,
      << [path |-> NameHEAD, state |-> "dir", content |-> <<>>, kind |-> "dir",
          target |-> <<>>, id |-> <<>>] >> }

MFiles ==
    { <<>>,
      << ShaFile(NameM, EncodeToString(IdCatalogue[3]), IdCatalogue[3]) >>,
      << SymRef(NameM, NameT) >>,
      << SymRef(NameM, NameHEAD) >>,
      << ShaFile(NameM, Bad40, <<>>) >>,
      << ShaFile(NameM, <<114, 101, 102, 58, 109>>, <<>>) >> }

\* the lines of the generated lists, each with the text of its fields (a
\* tab or a blank between the first two) and the identifier its first
\* field is the hex string of, if it is one
RefLine(first, sep, second, rest, id) ==
    [first |-> first, second |-> second, rest |-> rest, id |-> id,
     enc |-> first \o (IF second = <<>> THEN <<>> ELSE <<sep>> \o second)
                   \o (IF rest = <<>> THEN <<>> ELSE <<32>> \o rest)]

RefLines ==
    { RefLine(EncodeToString(IdCatalogue[2]), 9, NameM, <<>>, IdCatalogue[2]),
      RefLine(EncodeToString(IdCatalogue[4]), 32, NameM, <<>>, IdCatalogue[4]),
      RefLine(Hash40, 32, NameM, <<>>, <<>>),
      RefLine(EncodeToString(IdCatalogue[2]), 32, NameM, <<120>>, IdCatalogue[2]),
      RefLine(Bad40, 32, NameM, <<>>, <<>>),
      RefLine(EncodeToString(IdCatalogue[3]), 32, NameT, <<>>, IdCatalogue[3]),
      RefLine(<<>>, 32, <<>>, <<>>, <<>>),
      RefLine(Hex39, 32, NameM, <<>>, <<>>) }

\* the lines, each but the last with its line end
RECURSIVE JoinLines(_)
JoinLines(lines) ==
    IF lines = <<>> THEN <<>>
    ELSE IF Len(lines) = 1 THEN lines[1].enc
    ELSE lines[1].enc \o <<10>> \o JoinLines(Tail(lines))

ListFile(path, lines) ==
    [path |-> path, state |-> "file", content |-> JoinLines(lines), kind |-> "list",
     target |-> <<>>, id |-> <<>>, lines |-> lines]

InfoRefsFiles ==
    { <<>> } \cup { << ListFile(InfoRefs, lines) >> :
                      lines \in UNION { SeqsOf(RefLines, n) : n \in 0..MaxLines } }

PackedRefsFiles ==
    { <<>>,
      << ListFile(PackedRefs, << RefLine(EncodeToString(IdCatalogue[5]), 32, NameM, <<>>,
                                        IdCatalogue[5]) >>) >>,
      << ListFile(PackedRefs, << RefLine(Bad40, 32, NameM, <<>>, <<>>) >>) >> }

CallLookupReference ==
    /\ ret.op = "OpenRepository"
    /\ ~repos.nil
    /\ \E name \in RefNames :
         \E r \in {LookupReference(disk, repos, name)} :
           ret' = [op |-> "LookupReference", name |-> name, out |-> r.out, err |-> r.err,
                   ref |-> r.ref]
    /\ UNCHANGED <<disk, repos, idx, pooled>>

InitRef ==
    /\ \E h \in HeadFiles, m \in MFiles, i \in InfoRefsFiles, p \in PackedRefsFiles :
         disk = [root |-> "dir", idxs |-> <<>>, loose |-> <<>>, files |-> h \o m \o i \o p]
    /\ repos = NilPtr
    /\ idx = NilPtr
    /\ calls = <<>>
    /\ zlibReaderPool = {}
    /\ zreaders = <<>>
    /\ fds = {}
    /\ ret = NoCall

NextRef == CallOpenRepository \/ CallLookupReference

SpecRef == InitRef /\ [][NextRef]_vars

(***************************************************************************)
(* Claims about references.                                                *)
(***************************************************************************)
\* the line of a list that is taken for name: the first one with exactly
\* two fields, the first of 40 characters and the second equal to name;
\* with skip, lines whose first character is '#' are passed over
Taken(lines, name, skip) ==
    LET hits == {k \in 1..Len(lines) :
                   /\ lines[k].first # <<>> /\ lines[k].rest = <<>>
                   /\ Len(lines[k].first) = 40
                   /\ lines[k].second = name
                   /\ skip => lines[k].first[1] # 35}
    IN IF hits = {} THEN 0 ELSE CHOOSE k \in hits : \A j \in hits : k <= j

\* the identifier the list file at path gives for name, if any
FromList(path, name, skip) ==
    LET f == FileAt(disk, path) IN
    IF f.state = "absent" THEN [out |-> "err", id |-> <<>>]
    ELSE LET k == Taken(f.lines, name, skip) IN
         IF k = 0 THEN [out |-> "err", id |-> <<>>]
         ELSE IF f.lines[k].id = <<>> THEN [out |-> "err", id |-> <<>>]
         ELSE [out |-> "ok", id |-> f.lines[k].id]

\* the identifier the reference name stands for, by the order of the
\* claim: the file of that name (a symbolic reference is followed, other
\* content is an identifier in hex), and only without such a file
\* info/refs and then packed-refs
RECURSIVE Resolved(_, _, _)
Resolved(name, skip, seen) ==
    LET f == FileAt(disk, name) IN
    IF f.state = "absent"
    THEN IF FromList(InfoRefs, name, skip).out = "ok" THEN FromList(InfoRefs, name, skip)
         ELSE FromList(PackedRefs, name, skip)
    ELSE IF f.kind = "symref"
    THEN IF f.target \in seen \cup {name} THEN [out |-> "diverges", id |-> <<>>]
         ELSE Resolved(f.target, skip, seen \cup {name})
    ELSE IF f.kind = "sha" /\ f.id # <<>> THEN [out |-> "ok", id |-> f.id]
    ELSE [out |-> "err", id |-> <<>>]

AgreesWith(e) ==
    /\ ret.out = e.out
    /\ e.out = "ok" => (~ret.ref.nil /\ ret.ref.Oid.Bytes = e.id)

\* C18: LookupReference(name) resolves by this order: the file
\* <repo>/<name>, if it exists, decides (content "ref: <target>" is
\* followed, other content is read as 40 hex characters); only if it does
\* not exist is name looked up in info/refs and then, if that fails, in
\* packed-refs, taking the first line with exactly two fields whose first
\* has 40 characters and whose second equals name.
C18_ResolutionOrder ==
    ret.op = "LookupReference" => AgreesWith(Resolved(ret.name, FALSE, {}))

\* C18, amended: the same, where the lines of info/refs and packed-refs
\* that are empty or start with '#' are passed over before the fields are
\* looked at.
C18_ResolutionOrderSkippingComments ==
    ret.op = "LookupReference" => AgreesWith(Resolved(ret.name, TRUE, {}))

\* HEAD names m, m has no file, info/refs has lines for m but none that
\* is taken, and packed-refs supplies the identifier
C18_Witness ==
    /\ ret.op = "LookupReference"
    /\ ret.name = NameHEAD
    /\ FileAt(disk, NameHEAD).state = "file"
    /\ FileAt(disk, NameM).state = "absent"
    /\ FileAt(disk, InfoRefs).state = "file"
    /\ Len(FileAt(disk, InfoRefs).lines) = 2
    /\ ret.out = "ok"
    /\ ret.ref.Oid.Bytes = IdCatalogue[5]

\* info/refs has a line for m that starts with '#' before the line that
\* is taken
C18_WitnessComment ==
    /\ ret.op = "LookupReference"
    /\ ret.name = NameM
    /\ FileAt(disk, NameM).state = "absent"
    /\ FileAt(disk, InfoRefs).state = "file"
    /\ Len(FileAt(disk, InfoRefs).lines) = 2
    /\ FileAt(disk, InfoRefs).lines[1].first = Hash40
    /\ ret.out = "ok"
    /\ ret.ref.Oid.Bytes = IdCatalogue[4]

(***************************************************************************)
(* Commits (commit.go, tree.go), and calls made one after another on a     *)
(* Repository while files appear in objects/pack.                          *)
(***************************************************************************)
\* bytes.IndexByte(b, c): 0-based, -1 when c is not in b
IndexByteIn(b, c) ==
    LET hits == {i \in 1..Len(b) : b[i] = c} IN
    IF hits = {} THEN -1 ELSE Least(hits) - 1

\* Op(a, b, c) and Op(a) with the arguments evaluated before the call
Strict3(Op(_, _, _), a, b, c) ==
    CHOOSE r \in {Op(x, y, z) : x \in {a}, y \in {b}, z \in {c}} : TRUE

Strict1(Op(_), a) == CHOOSE r \in {Op(x) : x \in {a}} : TRUE

\* "tree"
TreeWord == <<116, 114, 101, 101>>

\* parseCommitData(data) from the 0-based position nextline on, as far as
\* the tree id goes: a line is "<reftype> <rest>"; parent, author and
\* committer lines set other fields (signatures are not modelled: the
\* generated commits have no author or committer line); after the empty
\* line comes the message, and the loop goes on
RECURSIVE parseCommitDataFrom(_, _, _)
parseCommitDataFrom(data, nextline, treeId) ==
    LET eol == IndexByteIn(Slice(data, nextline, Len(data)), 10) IN
    IF eol > 0 THEN
        LET line == Slice(data, nextline, nextline + eol)
            spacepos == IndexByteIn(line, 32)
        IN IF spacepos < 0
           THEN [out |-> "panic", treeId |-> NilOid, err |-> "slice bounds out of range"]
           ELSE IF Slice(line, 0, spacepos) = TreeWord
           THEN LET o == NewOidFromString(Slice(line, spacepos + 1, Len(line))) IN
                IF o.out # "ok" THEN [out |-> "err", treeId |-> NilOid, err |-> o.err]
                ELSE Strict3(parseCommitDataFrom, data, nextline + eol + 1, o.oid)
           ELSE Strict3(parseCommitDataFrom, data, nextline + eol + 1, treeId)
    ELSE IF eol = 0 THEN Strict3(parseCommitDataFrom, data, nextline + 1, treeId)
    ELSE [out |-> "ok", treeId |-> treeId, err |-> Nil]

parseCommitData(data) == parseCommitDataFrom(data, 0, NilOid)

\* the file modes of tree entries: "100644", "120000", "160000", "40000"
TreeModes ==
    { <<49, 48, 48, 54, 52, 52>>, <<49, 50, 48, 48, 48, 48>>, <<49, 54, 48, 48, 48, 48>>,
      <<52, 48, 48, 48, 48>> }

\* parseTreeData(data) from the 0-based position pos on: entries counts
\* the entries read ("<mode> <name>\0" and 20 bytes)
RECURSIVE parseTreeDataFrom(_, _, _)
parseTreeDataFrom(data, pos, entries) ==
    IF ~(pos < Len(data)) THEN [out |-> "ok", entries |-> entries, err |-> Nil]
    ELSE LET spacepos == IndexByteIn(Slice(data, pos, Len(data)), 32) IN
         IF spacepos < 0
         THEN [out |-> "panic", entries |-> 0, err |-> "slice bounds out of range"]
         ELSE IF Slice(data, pos, pos + spacepos) \notin TreeModes
         THEN [out |-> "err", entries |-> 0, err |-> "unknown type"]
         ELSE LET p == pos + spacepos + 1
                  zero == IndexByteIn(Slice(data, p, Len(data)), 0)
              IN IF zero < 0 \/ p + zero + 1 + IdLen > Len(data)
                 THEN [out |-> "panic", entries |-> 0, err |-> "slice bounds out of range"]
                 ELSE Strict3(parseTreeDataFrom, data, p + zero + 1 + IdLen, entries + 1)

parseTreeData(data) == parseTreeDataFrom(data, 0, 0)

\* repos.LookupCommit(oid): the commit's bytes, its tree id, the tree's
\* bytes; reads lists the identifiers getRawObject was asked for
LookupCommitOf(d, rp, oid, c) ==
    IF c.out # "ok" THEN [out |-> c.out, err |-> c.err, entries |-> 0, asked |-> <<oid>>]
    ELSE LET ci == Strict1(parseCommitData, c.data) IN
         IF ci.out # "ok"
         THEN [out |-> ci.out, err |-> ci.err, entries |-> 0, asked |-> <<oid>>]
         ELSE IF ci.treeId.nil
         THEN [out |-> "panic", err |-> "nil pointer dereference", entries |-> 0,
               asked |-> <<oid>>]
         ELSE LET t == getRawObject(d, rp, ci.treeId.Bytes).res
                  asked == <<oid, ci.treeId.Bytes>>
              IN IF t.out # "ok"
                 THEN [out |-> t.out, err |-> t.err, entries |-> 0, asked |-> asked]
                 ELSE LET tree == Strict1(parseTreeData, t.data) IN
                      [out |-> tree.out, err |-> tree.err, entries |-> tree.entries,
                       asked |-> asked]

LookupCommit(d, rp, oid) ==
    CHOOSE r \in {LookupCommitOf(d, rp, oid, c) : c \in {getRawObject(d, rp, oid).res}} : TRUE

\* most index files that appear in objects/pack after OpenRepository
MaxAdded == 1

\* "tree <hex of the third identifier>\n\nm": a commit with its tree, and
\* the tree "40000 a\0" with the fourth identifier
CommitData == TreeWord \o <<32>> \o EncodeToString(IdCatalogue[3]) \o <<10, 10, 109>>
TreeData == <<52, 48, 48, 48, 48, 32, 97, 0>> \o IdCatalogue[4]

\* the pack of these repositories: the commit, its tree and a blob
FramePack ==
    PackFile(<< [raw |-> ObjectCommit, data |-> CommitData, back |-> "none"],
                [raw |-> ObjectTree, data |-> TreeData, back |-> "none"],
                [raw |-> ObjectBlob, data |-> <<97, 98, 99>>, back |-> "none"] >>)

\* the offset entry of the k-th object of FramePack
FrameOff(k) == <<0, 0, 0, FramePack.starts[k]>>

\* the index files there are at OpenRepository: none, one for commit and
\* tree, or one for each
FrameIdxSeqs ==
    { <<>>,
      << [p |-> <<2, 3>>, offs |-> <<FrameOff(1), FrameOff(2)>>] >>,
      << [p |-> <<2>>, offs |-> <<FrameOff(1)>>], [p |-> <<3>>, offs |-> <<FrameOff(2)>>] >> }

\* the index files that appear later: one for the blob under the fourth
\* identifier, or one that has the blob under the commit's identifier too
AddedIdx ==
    { [p |-> <<4>>, offs |-> <<FrameOff(3)>>],
      [p |-> <<2, 4>>, offs |-> <<FrameOff(3), FrameOff(3)>>] }

FrameOids == {IdCatalogue[2], IdCatalogue[3], IdCatalogue[4]}

\* a pack and its index are written into objects/pack of the open
\* repository (by git, not by the package)
AddIndexFile ==
    /\ ~repos.nil
    /\ Len(disk.idxs) < Len(repos.indexfiles) + MaxAdded
    /\ \E a \in AddedIdx :
         disk' = [disk EXCEPT !.idxs =
                     Append(@, IdxFile(Len(disk.idxs) + 1, a.p, a.offs, FramePack, "ok"))]
    /\ UNCHANGED <<repos, idx, ret, pooled>>

\* the calls on the Repository, each after any other
SeqGetRawObject ==
    /\ ~repos.nil
    /\ \E oid \in FrameOids :
         \E r \in {getRawObject(disk, repos, oid)} : ret' = Returned("getRawObject", oid, r)
    /\ UNCHANGED <<disk, repos, idx, pooled>>

SeqType ==
    /\ ~repos.nil
    /\ \E oid \in FrameOids :
         \E r \in {Type(disk, repos, oid)} : ret' = Returned("Type", oid, r)
    /\ UNCHANGED <<disk, repos, idx, pooled>>

SeqObjectSize ==
    /\ ~repos.nil
    /\ \E oid \in FrameOids :
         \E r \in {ObjectSize(disk, repos, oid)} : ret' = Returned("ObjectSize", oid, r)
    /\ UNCHANGED <<disk, repos, idx, pooled>>

SeqLookupReference ==
    /\ ~repos.nil
    /\ \E name \in RefNames :
         \E r \in {LookupReference(disk, repos, name)} :
           ret' = [op |-> "LookupReference", name |-> name, out |-> r.out, err |-> r.err,
                   ref |-> r.ref]
    /\ UNCHANGED <<disk, repos, idx, pooled>>

SeqLookupCommit ==
    /\ ~repos.nil
    /\ \E oid \in FrameOids :
         \E r \in {LookupCommit(disk, repos, oid)} :
           ret' = [op |-> "LookupCommit", oid |-> oid, out |-> r.out, err |-> r.err,
                   entries |-> r.entries, asked |-> r.asked]
    /\ UNCHANGED <<disk, repos, idx, pooled>>

InitFrame ==
    /\ \E cs \in FrameIdxSeqs, h \in HeadFiles,
          m \in {mf \in MFiles : mf = <<>> \/ mf[1].id # <<>>},
          lf \in {f \in LooseFiles(IdCatalogue[2]) :
                    f.state = "absent" \/ f.content = LooseBlob} :
         disk = [root |-> "dir",
                 idxs |-> [k \in 1..Len(cs) |-> IdxFile(k, cs[k].p, cs[k].offs, FramePack, "ok")],
                 loose |-> << lf >>,
                 files |-> h \o m]
    /\ repos = NilPtr
    /\ idx = NilPtr
    /\ calls = <<>>
    /\ zlibReaderPool = {}
    /\ zreaders = <<>>
    /\ fds = {}
    /\ ret = NoCall

NextFrame ==
    \/ CallOpenRepository
    \/ AddIndexFile
    \/ SeqGetRawObject
    \/ SeqType
    \/ SeqObjectSize
    \/ SeqLookupReference
    \/ SeqLookupCommit

SpecFrame == InitFrame /\ [][NextFrame]_vars

(***************************************************************************)
(* Claims about the Repository after OpenRepository.                       *)
(***************************************************************************)
\* the files as they were at OpenRepository: without the index files that
\* appeared later
AtOpen == [disk EXCEPT !.idxs = SubSeq(@, 1, Len(repos.indexfiles))]

\* the last call returned what it returns on the files as they were at
\* OpenRepository, and asked none of the later index files
AsAtOpen ==
    /\ ret.op = "getRawObject" =>
          ret = Returned("getRawObject", ret.oid, getRawObject(AtOpen, repos, ret.oid))
    /\ ret.op = "Type" => ret = Returned("Type", ret.oid, Type(AtOpen, repos, ret.oid))
    /\ ret.op = "ObjectSize" =>
          ret = Returned("ObjectSize", ret.oid, ObjectSize(AtOpen, repos, ret.oid))
    /\ ret.op \in {"getRawObject", "Type", "ObjectSize"} =>
          \A k \in 1..Len(ret.consulted) : ret.consulted[k] <= Len(repos.indexfiles)
    /\ ret.op = "LookupCommit" =>
          LET r == LookupCommit(AtOpen, repos, ret.oid) IN
          /\ ret.out = r.out /\ ret.err = r.err
          /\ ret.entries = r.entries /\ ret.asked = r.asked
    /\ ret.op = "LookupReference" =>
          LET r == LookupReference(AtOpen, repos, ret.name) IN
          ret.out = r.out /\ ret.err = r.err /\ ret.ref = r.ref

\* C17: once OpenRepository has returned a Repository, no call of
\* getRawObject, Type, ObjectSize, LookupReference or LookupCommit, in any
\* sequence, changes it (its Path, its index files and their order, each
\* index's packpath and tables); index files that appear in objects/pack
\* after the open are never consulted.
C17_RepositoryFixedAtOpen ==
    /\ [][~repos.nil => repos' = repos]_vars
    /\ [](~repos.nil => AsAtOpen)

\* an index file for the fourth identifier has appeared after the open,
\* and getRawObject of that identifier, asked after other calls, does not
\* find it
C17_Witness ==
    /\ ~repos.nil
    /\ Len(repos.indexfiles) = 2
    /\ Len(disk.idxs) = 3
    /\ ret.op = "getRawObject"
    /\ ret.oid = IdCatalogue[4]
    /\ ret.out = "err" /\ ret.err = errObjNotFound
    /\ ret.consulted = <<1, 2>>

\* a commit has been looked up with its tree
C17_WitnessCommit ==
    /\ ret.op = "LookupCommit"
    /\ ret.out = "ok"
    /\ ret.entries = 1
    /\ Len(ret.asked) = 2
    /\ Len(disk.idxs) > Len(repos.indexfiles)

(***************************************************************************)
(* The size in a packed object header at the full width of int.  A number  *)
(* is the set of the positions of its 1 bits, bit 63 being the sign: the   *)
(* bytes of a header go to bit fields that do not overlap, so that adding  *)
(* a field is putting its bits into the set, without carry.                *)
(***************************************************************************)
\* the width of int and int64 on the 64-bit platforms
WordBits == 64

\* the bits of (v << sh) for a value v of 7 bits, cut to the word
BitsOf(v, sh) == {sh + k : k \in {j \in 0..6 : (v \div Pow2(j)) % 2 = 1}} \cap (0..(WordBits - 1))

\* shift := []byte{0, 4, 11} of the older readObjectBytes
shiftOlder == <<0, 4, 11>>

\* the loop of readLenInPackFile with the shift table tbl on the buffer
\* read at offset 0 of b: indexing past tbl panics
RECURSIVE readLenWideLoop(_, _, _, _)
readLenWideLoop(b, tbl, advance, bits) ==
    IF BufAt(b, 0, advance) >= 128 THEN
        IF advance + 1 >= Len(tbl)
        THEN [out |-> "panic", bits |-> {}, advance |-> advance + 1]
        ELSE readLenWideLoop(b, tbl, advance + 1,
                 bits \cup BitsOf(BufAt(b, 0, advance + 1) % 128, tbl[advance + 2]))
    ELSE [out |-> "ok", bits |-> bits, advance |-> advance + 1]

\* readLenInPackFile(buf), the length as a word
readLenInPackFileWide(b) == readLenWideLoop(b, shift, 0, BitsOf(BufAt(b, 0, 0) % 16, 0))

\* the size loop of the older readObjectBytes
readLenOlder(b) == readLenWideLoop(b, shiftOlder, 0, BitsOf(BufAt(b, 0, 0) % 16, 0))

\* most bytes in a generated header
MaxHeaderLen == 11

\* the low 7 bits the bytes of a generated header carry: every byte but
\* the last the same value, the last one its own
PayloadSamples == {0, 1, 8, 85, 127}
LastSamples == {1, 7, 8, 16, 127}

\* headers of n bytes: continuation bit on every byte but the last; and
\* runs of n bytes that all have it
Headers(n) ==
    { [i \in 1..n |-> IF i < n THEN 128 + p ELSE l] : p \in PayloadSamples, l \in LastSamples }
        \cup { [i \in 1..n |-> 128 + p] : p \in PayloadSamples }

ReadLenInPackFile ==
    /\ ret.op = "args" /\ ret.kind = "header"
    /\ \E r \in {readLenInPackFileWide(ret.arg)} :
         ret' = [op |-> "readLenInPackFile", arg |-> ret.arg, out |-> r.out,
                 bits |-> r.bits, advance |-> r.advance]
    /\ UNCHANGED <<disk, repos, idx, pooled>>

ReadLenOlder ==
    /\ ret.op = "args" /\ ret.kind = "header"
    /\ \E r \in {readLenOlder(ret.arg)} :
         ret' = [op |-> "readLenOlder", arg |-> ret.arg, out |-> r.out,
                 bits |-> r.bits, advance |-> r.advance]
    /\ UNCHANGED <<disk, repos, idx, pooled>>

InitLen ==
    /\ disk = [root |-> "dir", idxs |-> <<>>, loose |-> <<>>]
    /\ repos = NilPtr
    /\ idx = NilPtr
    /\ calls = <<>>
    /\ zlibReaderPool = {}
    /\ zreaders = <<>>
    /\ fds = {}
    /\ \E n \in 1..MaxHeaderLen : \E h \in Headers(n) :
         ret = [op |-> "args", kind |-> "header", arg |-> h]

NextLen == ReadLenInPackFile \/ ReadLenOlder

SpecLen == InitLen /\ [][NextLen]_vars

(***************************************************************************)
(* Claims about the header size.                                           *)
(***************************************************************************)
\* the number of bytes of the header in b: the index of the first byte
\* with bit 7 clear, plus one (the buffer is zero past the bytes read)
HeaderLen(b) ==
    LET clear == {i \in 1..Len(b) : b[i] < 128} IN
    IF clear = {} THEN Len(b) + 1 ELSE CHOOSE i \in clear : \A j \in clear : i <= j

\* the bits of the size the header stands for: the low 4 bits of byte 0,
\* and 7 bits of each later byte i at 4 + 7 * (i - 1)
ReferenceBits(b) ==
    {k \in 0..3 : (b[1] \div Pow2(k)) % 2 = 1}
      \cup UNION { {4 + 7 * (i - 2) + k : k \in {j \in 0..6 : ((b[i] % 128) \div Pow2(j)) % 2 = 1}} :
                     i \in 2..(IF HeaderLen(b) <= Len(b) THEN HeaderLen(b) ELSE Len(b)) }

\* C19: for every header of at most 10 bytes, the size decoded (by
\* readLenInPackFile, and by the loop of the older readObjectBytes) is the
\* reference decoding, (byte0 & 0x0F) + sum of (byte_i & 0x7F) << shift[i]
\* with shift = {0, 4, 11, ..., 60}, and the count of bytes consumed is the
\* index of the first byte with bit 7 clear plus one.
C19_HeaderSizeIsReference ==
    (ret.op \in {"readLenInPackFile", "readLenOlder"} /\ HeaderLen(ret.arg) <= 10) =>
        /\ ret.out = "ok"
        /\ ret.advance = HeaderLen(ret.arg)
        /\ ret.bits = ReferenceBits(ret.arg)
        /\ (WordBits - 1) \notin ret.bits

\* the same of readLenInPackFile alone, for headers whose size is below
\* 2^63: those of at most 9 bytes, and of 10 bytes with the last below 8
C19_CurrentBelowSignBit ==
    (/\ ret.op = "readLenInPackFile"
     /\ \/ HeaderLen(ret.arg) <= 9
        \/ HeaderLen(ret.arg) = 10 /\ BufAt(ret.arg, 0, 9) < 8) =>
        /\ ret.out = "ok"
        /\ ret.advance = HeaderLen(ret.arg)
        /\ ret.bits = ReferenceBits(ret.arg)

\* a header of 4 bytes has been given to the older loop
C19_Witness ==
    /\ ret.op = "readLenOlder"
    /\ HeaderLen(ret.arg) = 4
    /\ BufAt(ret.arg, 0, 3) = 1

\* a header of 10 bytes whose last byte has bits from 2^63 on has been
\* given to readLenInPackFile
C19_WitnessWide ==
    /\ ret.op = "readLenInPackFile"
    /\ HeaderLen(ret.arg) = 10
    /\ BufAt(ret.arg, 0, 9) = 16
    /\ ret.out = "ok"
    /\ ret.bits # ReferenceBits(ret.arg)

\* the number whose 1 bits are bits
RECURSIVE BitsValue(_)
BitsValue(bits) ==
    IF bits = {} THEN 0
    ELSE LET k == CHOOSE x \in bits : TRUE IN Pow2(k) + BitsValue(bits \ {k})

\* on the headers of at most 4 bytes the word-wide decoding is the
\* decoding readObjectBytes uses in the pack model
C19_WideAgreesOnShortHeaders ==
    (ret.op = "readLenInPackFile" /\ HeaderLen(ret.arg) <= 4) =>
        LET lp == readLenInPackFile(ret.arg, 0) IN
        /\ lp.out = ret.out
        /\ lp.advance = ret.advance
        /\ lp.length = BitsValue(ret.bits)

(***************************************************************************)
(* Pack files with an offset delta at a distance from its base.            *)
(***************************************************************************)
\* the bytes of the back-reference num as git writes them: the low 7 bits
\* last, and before them, 7 bits at a time, what is left minus one
RECURSIVE EncodeOffsetMore(_, _)
EncodeOffsetMore(ofs, acc) ==
    LET q == ofs \div 128 IN
    IF q = 0 THEN acc
    ELSE EncodeOffsetMore(q - 1, << 128 + ((q - 1) % 128) >> \o acc)

EncodeOffset(num) == EncodeOffsetMore(num, << num % 128 >>)

\* a delta of 20 bytes: base size 3, result size 17, insert 17 bytes
DeltaInsert17 == <<3, 17, 17>> \o [i \in 1..17 |-> 100 + i]

DeltaSamples == {DeltaCopyInsert, DeltaInsert17}

\* the bytes the deflated stream of the base takes in the file
GapSamples == {2, 126, 127, 128, 16510, 16511}

\* A pack of two objects: the blob 0B 0C 0D at offset 12, whose stream takes
\* gap bytes, and after it an offset delta whose back-reference is num.
BackPack(gap, num, delta) ==
    LET head1 == EncodeHeader(ObjectBlob, 3)
        before == PackMagic \o <<0, 0, 0, 2, 0, 0, 0, 2>> \o head1 \o RawStream
                    \o [i \in 1..(gap - 2) |-> 0]
        o == Len(before)
        head2 == EncodeHeader(OffsetDelta, Len(delta)) \o EncodeOffset(num)
    IN [exists |-> TRUE,
        bytes |-> before \o head2 \o RawStream,
        streams |-> << [pos |-> 12 + Len(head1), data |-> <<11, 12, 13>>],
                       [pos |-> o + Len(head2), data |-> delta] >>,
        starts |-> <<12, o>>,
        objs |-> << [raw |-> ObjectBlob, data |-> <<11, 12, 13>>, back |-> 0],
                    [raw |-> OffsetDelta, data |-> delta, back |-> num] >>]

\* the back-references of the delta after a stream of gap bytes: to the
\* blob's header (gap + 1), into the blob's stream, to the pack's first
\* byte and to before it
BackNums(gap) == {gap + 1, gap, 1, gap + 13, gap + 14}

BackPacks ==
    UNION { { BackPack(gap, num, delta) : num \in BackNums(gap), delta \in DeltaSamples } :
              gap \in GapSamples }

\* readObjectBytes(path, offset, sizeonly) at the offset of an object of
\* the pack
ReadPackedObject ==
    /\ ret = NoCall
    /\ \E k \in 1..Len(disk.idxs[1].pack.starts), sizeonly \in BOOLEAN :
        \E r \in {readObjectBytes(disk.idxs[1].pack, disk.idxs[1].pack.starts[k], sizeonly)} :
          ret' = [op |-> "readObjectBytes", offset |-> disk.idxs[1].pack.starts[k],
                  sizeonly |-> sizeonly,
                  out |-> r.out, ot |-> r.ot, length |-> r.length, data |-> r.data,
                  err |-> r.err, reads |-> r.reads, inflates |-> r.inflates]
    /\ UNCHANGED <<disk, repos, idx, pooled>>

InitBack ==
    /\ \E pk \in BackPacks :
         disk = [root |-> "dir",
                 idxs |-> << IdxFile(1, <<>>, <<>>, pk, "ok") >>,
                 loose |-> <<>>]
    /\ repos = NilPtr
    /\ idx = NilPtr
    /\ calls = <<>>
    /\ zlibReaderPool = {}
    /\ zreaders = <<>>
    /\ fds = {}
    /\ ret = NoCall

NextBack == ReadPackedObject

SpecBack == InitBack /\ [][NextBack]_vars

(***************************************************************************)
(* Claims about the offset-delta back-reference.                           *)
(***************************************************************************)
\* the pack of the call and the offset delta the call was made on
BackCalled == disk.idxs[1].pack

OnDelta ==
    /\ ret.op = "readObjectBytes"
    /\ ret.offset = BackCalled.starts[2]

\* the bytes of the size header of the delta: up to the first with bit 7
\* clear
DeltaHeaderLen ==
    LET b == BackCalled.bytes
        o == ret.offset
    IN Least({i \in 1..10 : BufAt(b, o, i - 1) < 128})

\* the bytes of the back-reference after the header, up to the first with
\* bit 7 clear
BackRefBytes ==
    LET b == BackCalled.bytes
        o == ret.offset + DeltaHeaderLen
        n == Least({i \in 1..10 : BufAt(b, o, i - 1) < 128})
    IN [i \in 1..n |-> BufAt(b, o, i - 1)]

\* num = byte & 0x7f, then ((num + 1) << 7) | (next & 0x7f) for each further
\* byte, written out for back-references of up to 3 bytes
BackRefNum ==
    LET r == BackRefBytes IN
    CASE Len(r) = 1 -> r[1] % 128
      [] Len(r) = 2 -> ((r[1] % 128) + 1) * 128 + (r[2] % 128)
      [] Len(r) = 3 -> ((((r[1] % 128) + 1) * 128 + (r[2] % 128)) + 1) * 128 + (r[3] % 128)

\* C20: for an offset delta at pack offset o, the back-reference is decoded
\* from the byte after the size header as num = byte & 0x7f and, while the
\* high bit of the last byte read is set, num = ((num + 1) << 7) |
\* (next & 0x7f); the base is read at o - num, and the delta stream is
\* inflated at o + (header length + number of back-reference bytes).
C20_BackReference ==
    OnDelta =>
        /\ BackRefNum = BackCalled.objs[2].back
        /\ Len(ret.reads) >= 2
        /\ ret.reads[1] = ret.offset
        /\ ret.reads[2] = ret.offset - BackRefNum
        /\ Len(ret.inflates) >= 2 =>
             ret.inflates[Len(ret.inflates)] =
                 [pos |-> ret.offset + DeltaHeaderLen + Len(BackRefBytes),
                  size |-> Len(BackCalled.objs[2].data)]
        /\ (ret.reads[2] = BackCalled.starts[1]) =>
             /\ ret.out = "ok"
             /\ Len(ret.inflates) = 2

\* a delta with a header of 2 bytes and a back-reference of 2 bytes to its
\* base has been read
C20_Witness ==
    /\ OnDelta
    /\ DeltaHeaderLen = 2
    /\ Len(BackRefBytes) = 2
    /\ BackRefNum = 16511
    /\ ret.out = "ok"
    /\ ~ret.sizeonly
    /\ Len(ret.data) = 17

\* a back-reference of 3 bytes has been read
C20_WitnessThree ==
    /\ OnDelta
    /\ Len(BackRefBytes) = 3
    /\ ret.out = "ok"
    /\ ret.reads = <<ret.offset, 12>>

\* a back-reference to before the start of the file has been read
C20_WitnessNegative ==
    /\ OnDelta
    /\ ret.reads[2] < 0
    /\ ret.out = "err"

(***************************************************************************)
(* readLittleEndianBase128Number at the width of int64: the value is the   *)
(* set of the positions of its 1 bits, bit 63 being the sign.  The 7 bits  *)
(* of byte i go to the positions from 7 * i on, so that or-ing them in is  *)
(* putting them into the set; a shift by 64 or more leaves nothing.        *)
(***************************************************************************)
RECURSIVE base128WideLoop(_, _, _, _)
base128WideLoop(buf, zpos, toread, sh) ==
    IF buf[zpos + 1] >= 128 THEN
        IF zpos + 2 > Len(buf) THEN [out |-> "panic", bits |-> {}, read |-> 0]
        ELSE base128WideLoop(buf, zpos + 1,
                 toread \cup BitsOf(buf[zpos + 2] % 128, sh + 7), sh + 7)
    ELSE [out |-> "ok", bits |-> toread, read |-> zpos + 1]

readLittleEndianBase128NumberWide(buf) ==
    IF buf = <<>> THEN [out |-> "panic", bits |-> {}, read |-> 0]
    ELSE base128WideLoop(buf, 0, BitsOf(buf[1] % 128, 0), 0)

\* the little-endian base-128 bytes of n: 7 bits a byte, the low ones
\* first, bit 7 set on every byte but the last
RECURSIVE EncodeBase128(_)
EncodeBase128(n) ==
    IF n < 128 THEN << n >> ELSE << 128 + (n % 128) >> \o EncodeBase128(n \div 128)

\* numbers at the edges of 1, 2, 3 and 4 bytes, and the two of the test
Base128Numbers == {0, 1, 127, 128, 202, 247, 16383, 16384, 2097151, 2097152, 268435455}

\* the buffers given to the decoder: the encodings of the numbers, the
\* generated headers of 1 .. MaxHeaderLen bytes, and the empty buffer
Base128Buffers ==
    { EncodeBase128(n) : n \in Base128Numbers }
        \cup UNION { Headers(n) : n \in 1..MaxHeaderLen }
        \cup { <<>> }

ReadLittleEndianBase128Number ==
    /\ ret.op = "args" /\ ret.kind = "base128"
    /\ \E r \in {readLittleEndianBase128NumberWide(ret.arg)} :
         ret' = [op |-> "readLittleEndianBase128Number", arg |-> ret.arg, out |-> r.out,
                 bits |-> r.bits, read |-> r.read]
    /\ UNCHANGED <<disk, repos, idx, pooled>>

\* the same call as readObjectBytes makes it, on the bytes after the first
\* zpos of the inflated delta
ReadLittleEndianBase128NumberAt ==
    /\ ret.op = "args" /\ ret.kind = "base128"
    /\ Len(ret.arg) \in 1..4
    /\ \E zpos \in 0..1 :
         \E r \in {readLittleEndianBase128Number(ret.arg, zpos)} :
           ret' = [op |-> "readLittleEndianBase128NumberAt", arg |-> ret.arg, zpos |-> zpos,
                   out |-> r.out, value |-> r.value, read |-> r.read]
    /\ UNCHANGED <<disk, repos, idx, pooled>>

InitBase128 ==
    /\ disk = [root |-> "dir", idxs |-> <<>>, loose |-> <<>>]
    /\ repos = NilPtr
    /\ idx = NilPtr
    /\ calls = <<>>
    /\ zlibReaderPool = {}
    /\ zreaders = <<>>
    /\ fds = {}
    /\ \E b \in Base128Buffers : ret = [op |-> "args", kind |-> "base128", arg |-> b]

NextBase128 == ReadLittleEndianBase128Number \/ ReadLittleEndianBase128NumberAt

SpecBase128 == InitBase128 /\ [][NextBase128]_vars

(***************************************************************************)
(* Claims about readLittleEndianBase128Number.                             *)
(***************************************************************************)
\* the bytes of b with bit 7 clear
Terminators(b) == {i \in 1..Len(b) : b[i] < 128}

\* sum_{i=0..k} (byte_i & 0x7f) << (7*i) as the set of its 1 bits, for the
\* first k with bit 7 of byte k clear
SumBits(b) ==
    UNION { {7 * (i - 1) + j : j \in {x \in 0..6 : ((b[i] % 128) \div Pow2(x)) % 2 = 1}} :
              i \in 1..Least(Terminators(b)) }

\* C21: for every byte sequence whose first byte with bit 7 clear is at
\* index k, readLittleEndianBase128Number returns the value
\* sum_{i=0..k} (byte_i & 0x7f) << (7*i) and the count k+1; F7 01 gives 247
\* and CA 01 gives 202, 2 bytes each; and the encoding of a non-negative
\* integer decodes to that integer and the length of the encoding.
C21_Base128IsSum ==
    /\ (ret.op = "readLittleEndianBase128Number" /\ Terminators(ret.arg) # {}) =>
          /\ ret.out = "ok"
          /\ ret.read = Least(Terminators(ret.arg))
          /\ ret.bits = SumBits(ret.arg)
          /\ 63 \notin ret.bits
    /\ (ret.op = "readLittleEndianBase128Number" /\ ret.arg = <<247, 1>>) =>
          ret.read = 2 /\ BitsValue(ret.bits) = 247
    /\ (ret.op = "readLittleEndianBase128Number" /\ ret.arg = <<202, 1>>) =>
          ret.read = 2 /\ BitsValue(ret.bits) = 202
    /\ \A n \in Base128Numbers :
          (ret.op = "readLittleEndianBase128Number" /\ ret.arg = EncodeBase128(n)) =>
              ret.read = Len(ret.arg) /\ BitsValue(ret.bits) = n

\* the same for the sequences of at most 9 bytes, whose sum is below 2^63
C21_Base128BelowSignBit ==
    /\ (/\ ret.op = "readLittleEndianBase128Number"
        /\ Terminators(ret.arg) # {}
        /\ Least(Terminators(ret.arg)) <= 9) =>
          /\ ret.out = "ok"
          /\ ret.read = Least(Terminators(ret.arg))
          /\ ret.bits = SumBits(ret.arg)
    /\ \A n \in Base128Numbers :
          (ret.op = "readLittleEndianBase128Number" /\ ret.arg = EncodeBase128(n)) =>
              ret.read = Len(ret.arg) /\ BitsValue(ret.bits) = n

\* the decoder of readObjectBytes is the word-wide one on the buffers of at
\* most 4 bytes
C21_WideAgreesOnShortBuffers ==
    (ret.op = "readLittleEndianBase128NumberAt" /\ ret.zpos = 0) =>
        LET w == readLittleEndianBase128NumberWide(ret.arg) IN
        /\ w.out = ret.out
        /\ w.read = ret.read
        /\ BitsValue(w.bits) = ret.value

\* a sequence of 10 bytes whose last byte is 0x10 has been decoded: the bit of
\* the sum at 2^67 is not in the value
C21_Witness ==
    /\ ret.op = "readLittleEndianBase128Number"
    /\ Len(ret.arg) = 10
    /\ Terminators(ret.arg) = {10}
    /\ ret.arg[10] = 16
    /\ ret.out = "ok"
    /\ ret.bits # SumBits(ret.arg)

\* F7 01 has been decoded
C21_WitnessTest ==
    /\ ret.op = "readLittleEndianBase128Number"
    /\ ret.arg = <<247, 1>>
    /\ ret.out = "ok"

(***************************************************************************)
(* applyDelta on programs of one copy instruction and an insert after it.  *)
(***************************************************************************)
\* the bits of a copy opcode that are set, of bits 0..6
OperandBits(opcode) == {i \in 0..6 : (opcode \div Pow2(i)) % 2 = 1}

\* the values the operand bytes of a generated copy take: "count" gives the
\* k-th operand byte the value k, "zero" 0, "two" 2, and "high" 255 (63 for
\* the byte of bit 3)
OperandPatterns == {"count", "zero", "two", "high"}

\* the operand byte for bit i of the opcode, the k-th of the program
OperandByte(pattern, i, k) ==
    CASE pattern = "count" -> k
      [] pattern = "zero" -> 0
      [] pattern = "two" -> 2
      [] pattern = "high" -> IF i = 3 THEN 63 ELSE 255

\* the program: the opcode, an operand byte for each of its bits from bit 0
\* up, and the insert of the one byte 9
CopyProgram(opcode, pattern) ==
    LET bits == OperandBits(opcode)
        nth(k) == CHOOSE i \in bits : Cardinality({j \in bits : j < i}) = k - 1
    IN << opcode >> \o [k \in 1..Cardinality(bits) |-> OperandByte(pattern, nth(k), k)]
         \o <<1, 9>>

\* the bases: 12 bytes, 700 bytes, and 65540 bytes for the copies of 65536
CopyBaseLens == {12, 700, 65540}

CopyBase(n) == [i \in 1..n |-> (i * 7) % 251]

\* the length of the result the delta announces, for a copy of len bytes
\* out of a base of n bytes and the byte inserted after it
CopyResultLen(n, len) == IF len <= n THEN len + 1 ELSE 4

\* applyDelta(b, base, resultLen) on a program of CopyProgram; args is what
\* the two loops over the opcode's bits leave in zpos, copy_offset and
\* copy_length before the bytes are copied
ApplyDeltaCopy ==
    /\ ret.op = "args" /\ ret.kind = "copy"
    /\ \E a \in {copyArgs(ret.b, 1, ret.b[1], 0, 0, 0)} :
         \E resultLen \in {CopyResultLen(Len(ret.base), a.copy_length)} :
           \E r \in {applyDelta(ret.b, ret.base, resultLen)} :
             ret' = [op |-> "applyDeltaCopy", b |-> ret.b, base |-> ret.base,
                     resultLen |-> resultLen, args |-> a,
                     out |-> r.out, data |-> r.data, err |-> r.err]
    /\ UNCHANGED <<disk, repos, idx, pooled>>

\* the older applyDelta on the same arguments
ApplyDeltaOlderCopy ==
    /\ ret.op = "args" /\ ret.kind = "copy"
    /\ \E a \in {copyArgs(ret.b, 1, ret.b[1], 0, 0, 0)} :
         \E resultLen \in {CopyResultLen(Len(ret.base), a.copy_length)} :
           \E r \in {applyDeltaOlder(ret.b, ret.base, resultLen)} :
             ret' = [op |-> "applyDeltaOlderCopy", b |-> ret.b, base |-> ret.base,
                     resultLen |-> resultLen, args |-> a,
                     out |-> r.out, data |-> r.data, err |-> r.err]
    /\ UNCHANGED <<disk, repos, idx, pooled>>

InitCopy ==
    /\ disk = [root |-> "dir", idxs |-> <<>>, loose |-> <<>>]
    /\ repos = NilPtr
    /\ idx = NilPtr
    /\ calls = <<>>
    /\ zlibReaderPool = {}
    /\ zreaders = <<>>
    /\ fds = {}
    /\ \E opcode \in 128..255, pattern \in OperandPatterns, n \in CopyBaseLens :
         /\ n = 65540 => opcode \in {128, 129, 144, 145}
         /\ ret = [op |-> "args", kind |-> "copy", b |-> CopyProgram(opcode, pattern),
                   base |-> CopyBase(n)]

NextCopy == ApplyDeltaCopy \/ ApplyDeltaOlderCopy

SpecCopy == InitCopy /\ [][NextCopy]_vars

(***************************************************************************)
(* Claims about the copy instruction.                                      *)
(***************************************************************************)
\* the program byte that belongs to bit i of the opcode of program b: the
\* bytes after the opcode go to the set bits in the order bit 0 .. bit 6
OperandOf(b, i) ==
    b[1 + Cardinality({j \in OperandBits(b[1]) : j <= i})]

\* copy_offset and copy_length as the claim gives them: the bytes of bits
\* 0..3 shifted by 0, 8, 16, 24, those of bits 4..6 by 0, 8, 16, an absent
\* byte being 0
RECURSIVE SumOver(_, _, _)
SumOver(b, bits, low) ==
    IF bits = {} THEN 0
    ELSE LET i == CHOOSE x \in bits : TRUE IN
         OperandOf(b, i) * Pow2(8 * (i - low)) + SumOver(b, bits \ {i}, low)

ClaimedOffset(b) == SumOver(b, OperandBits(b[1]) \cap (0..3), 0)
ClaimedLength(b) ==
    LET l == SumOver(b, OperandBits(b[1]) \cap (4..6), 4) IN IF l = 0 THEN 65536 ELSE l

\* C22: for a copy opcode applyDelta consumes exactly popcount(op & 0x7f)
\* following program bytes, offset bytes for bits 0..3 (shifts 0, 8, 16, 24)
\* then length bytes for bits 4..6 (shifts 0, 8, 16), absent bytes being
\* zero; a copy_length of 0 becomes 65536; it then appends
\* base[copy_offset .. copy_offset + copy_length) to the result at the
\* write position and advances the write position by copy_length (the
\* byte inserted next lands right after the copied bytes), for every copy
\* whose range lies in the base.
C22_CopyDecoding ==
    ret.op \in {"applyDeltaCopy", "applyDeltaOlderCopy"} =>
        LET off == ClaimedOffset(ret.b)
            len == ClaimedLength(ret.b)
        IN
        /\ ret.args.out = "ok"
        /\ ret.args.zpos = 1 + Cardinality(OperandBits(ret.b[1]))
        /\ ret.args.copy_offset = off
        /\ ret.args.copy_length = len
        /\ off + len <= Len(ret.base) =>
             /\ ret.out = "ok"
             /\ ret.resultLen = len + 1
             /\ ret.data = SubSeq(ret.base, off + 1, off + len) \o <<9>>

\* a copy with an offset byte and a length byte, inside the base
C22_Witness ==
    /\ ret.op = "applyDeltaCopy"
    /\ ret.b = <<145, 2, 2, 1, 9>>
    /\ ret.out = "ok"
    /\ ret.data = <<ret.base[3], ret.base[4], 9>>

\* a copy whose length byte is 0 has copied 65536 bytes
C22_WitnessSubstituted ==
    /\ ret.op = "applyDeltaCopy"
    /\ ret.b = <<145, 0, 0, 1, 9>>
    /\ ret.out = "ok"
    /\ Len(ret.data) = 65537

\* a copy with all 7 operand bytes has been decoded
C22_WitnessAllBytes ==
    /\ ret.op = "applyDeltaCopy"
    /\ ret.b[1] = 255
    /\ ret.args.zpos = 8
    /\ ret.args.copy_offset = 1 + 2 * 256 + 3 * 65536 + 4 * 16777216
    /\ ret.args.copy_length = 5 + 6 * 256 + 7 * 65536

\* a copy with two offset bytes, inside the base of 700 bytes
C22_WitnessSecondByte ==
    /\ ret.op = "applyDeltaCopy"
    /\ ret.b = <<147, 2, 2, 2, 1, 9>>
    /\ ret.out = "ok"
    /\ ret.data = <<ret.base[515], ret.base[516], 9>>

(***************************************************************************)
(* applyDelta on programs built around one insert instruction.             *)
(***************************************************************************)
\* the n bytes an insert of n carries
InsertBytes(n) == [i \in 1..n |-> (i * 3 + n) % 256]

\* the programs: the insert alone ("single"), with an insert of the byte 9
\* after it ("then"), with a copy of base[0:2] before it ("after"), and
\* the program without instructions ("empty")
InsertForms == {"single", "then", "after", "empty"}

InsertProgram(form, n) ==
    CASE form = "single" -> << n >> \o InsertBytes(n)
      [] form = "then" -> << n >> \o InsertBytes(n) \o <<1, 9>>
      [] form = "after" -> <<144, 2>> \o << n >> \o InsertBytes(n)
      [] form = "empty" -> <<>>

\* the result length the delta announces for the program
InsertResultLen(form, n) ==
    CASE form = "single" -> n
      [] form = "then" -> n + 1
      [] form = "after" -> n + 2
      [] form = "empty" -> 0

\* applyDelta(b, base, resultLen) on a program of InsertProgram
ApplyDeltaInsert ==
    /\ ret.op = "args" /\ ret.kind = "insert"
    /\ \E r \in {applyDelta(InsertProgram(ret.form, ret.n), ret.base,
                            InsertResultLen(ret.form, ret.n))} :
         ret' = [op |-> "applyDeltaInsert", form |-> ret.form, n |-> ret.n,
                 b |-> InsertProgram(ret.form, ret.n), base |-> ret.base,
                 resultLen |-> InsertResultLen(ret.form, ret.n),
                 out |-> r.out, data |-> r.data, err |-> r.err]
    /\ UNCHANGED <<disk, repos, idx, pooled>>

\* the older applyDelta on the same arguments
ApplyDeltaOlderInsert ==
    /\ ret.op = "args" /\ ret.kind = "insert"
    /\ \E r \in {applyDeltaOlder(InsertProgram(ret.form, ret.n), ret.base,
                                 InsertResultLen(ret.form, ret.n))} :
         ret' = [op |-> "applyDeltaOlderInsert", form |-> ret.form, n |-> ret.n,
                 b |-> InsertProgram(ret.form, ret.n), base |-> ret.base,
                 resultLen |-> InsertResultLen(ret.form, ret.n),
                 out |-> r.out, data |-> r.data, err |-> r.err]
    /\ UNCHANGED <<disk, repos, idx, pooled>>

InitInsert ==
    /\ disk = [root |-> "dir", idxs |-> <<>>, loose |-> <<>>]
    /\ repos = NilPtr
    /\ idx = NilPtr
    /\ calls = <<>>
    /\ zlibReaderPool = {}
    /\ zreaders = <<>>
    /\ fds = {}
    /\ \E form \in InsertForms, n \in 1..127, base \in DeltaBases :
         /\ form = "empty" => n = 1
         /\ ret = [op |-> "args", kind |-> "insert", form |-> form, n |-> n, base |-> base]

NextInsert == ApplyDeltaInsert \/ ApplyDeltaOlderInsert

SpecInsert == InitInsert /\ [][NextInsert]_vars

(***************************************************************************)
(* Claims about the insert instruction.                                    *)
(***************************************************************************)
\* C23: for an insert opcode n (1 <= n <= 127) applyDelta copies the next n
\* program bytes to the result at the write position and goes on decoding
\* at the byte after them; a program of the single insert n followed by the
\* n bytes B, on any base with result_len = n, yields exactly B; an empty
\* program with result_len = 0 yields an empty result.
C23_InsertCopiesProgramBytes ==
    ret.op \in {"applyDeltaInsert", "applyDeltaOlderInsert"} =>
        /\ ret.form = "single" => (ret.out = "ok" /\ ret.data = InsertBytes(ret.n))
        /\ ret.form = "then" => (ret.out = "ok" /\ ret.data = InsertBytes(ret.n) \o <<9>>)
        /\ (ret.form = "after" /\ Len(ret.base) >= 2) =>
              (ret.out = "ok" /\ ret.data = SubSeq(ret.base, 1, 2) \o InsertBytes(ret.n))
        /\ ret.form = "empty" => (ret.out = "ok" /\ ret.data = <<>>)

\* the insert of 127 bytes alone, on the base of 3 bytes
C23_Witness ==
    /\ ret.op = "applyDeltaInsert"
    /\ ret.form = "single"
    /\ ret.n = 127
    /\ Len(ret.base) = 3
    /\ Len(ret.data) = 127

\* the empty program has been applied
C23_WitnessEmpty ==
    /\ ret.op = "applyDeltaInsert"
    /\ ret.form = "empty"
    /\ ret.b = <<>>
    /\ ret.resultLen = 0
    /\ ret.out = "ok"

\* an insert after a copy has been applied
C23_WitnessAfterCopy ==
    /\ ret.op = "applyDeltaInsert"
    /\ ret.form = "after"
    /\ ret.n = 2
    /\ ret.out = "ok"
    /\ Len(ret.data) = 4

(***************************************************************************)
(* readObjectFile with the inflater delivering the stream in pieces.  A    *)
(* Read(p) of an io.Reader returns between 1 and len(p) of the bytes left, *)
(* and io.EOF either with the last of them or on the Read after.           *)
(***************************************************************************)
Min(a, b) == IF a <= b THEN a ELSE b

\* The loop that fills remainingBuf: p bytes of the total of the stream
\* have been delivered, count of remainingSize stored; each Read gives at
\* most chunk bytes.  A Read at the end of the stream returns 0 and io.EOF,
\* which leaves count as it is: the loop goes round without end ("hangs").
\* eof tells whether the last Read returned io.EOF.
RECURSIVE fillRemaining(_, _, _, _, _, _, _)
fillRemaining(total, remainingSize, chunk, eofWithLast, p, count, zreads) ==
    IF ~(count < remainingSize)
    THEN [out |-> "ok", count |-> count, zreads |-> zreads,
          eof |-> (zreads > 1 /\ p = total /\ eofWithLast)]
    ELSE IF p = total
    THEN [out |-> "hangs", count |-> count, zreads |-> zreads + 1, eof |-> TRUE]
    ELSE CHOOSE r \in { fillRemaining(total, remainingSize, chunk, eofWithLast,
                                      p + n, count + n, zreads + 1) :
                          n \in {Min(chunk, Min(remainingSize - count, total - p))} } : TRUE

\* readObjectFile(path, sizeonly) on a file whose stream inflates to
\* content, when the first Read returns at most first bytes and the later
\* ones at most chunk
readObjectFileReads(content, first, chunk, eofWithLast, sizeonly) ==
    LET R(out, ot, length, data, err, zreads) ==
            [out |-> out, ot |-> ot, length |-> length, data |-> data, err |-> err,
             zreads |-> zreads]
        total == Len(content)
        n == Min(first, Min(first_buffer_size, total))
        got == SubSeq(content, 1, n)
        spaceposition == IndexByte(got, 32)
    IN
    IF n = 0 THEN R("err", 0, 0, <<>>, "EOF", 1)
    ELSE IF spaceposition < 0 THEN R("panic", 0, 0, <<>>, "slice bounds out of range", 1)
    ELSE
      LET ot == typeOfToken(Slice(got, 0, spaceposition))
          g == getLengthZeroTerminated(got, spaceposition + 1)
          length == g.length
          objstart == g.objstart + spaceposition + 1
          remainingSize == length - first_buffer_size + objstart
          b == got \o Zeros(first_buffer_size - n)
      IN
      IF g.out = "panic" THEN R("panic", ot, 0, <<>>, "index out of range", 1)
      ELSE IF sizeonly THEN R("ok", ot, length, <<>>, Nil, 1)
      ELSE IF n < length + objstart THEN
          IF remainingSize < 0
          THEN R("panic", ot, length, <<>>, "makeslice: len out of range", 1)
          ELSE LET f == fillRemaining(total, remainingSize, chunk, eofWithLast, n, 0, 1)
                   all == b \o SubSeq(content, n + 1, n + f.count)
               IN IF f.out = "hangs" THEN R("hangs", ot, length, <<>>, Nil, f.zreads)
                  ELSE R("ok", ot, length, Slice(all, objstart, objstart + length), Nil,
                         f.zreads)
      ELSE IF length < 0
      THEN R("panic", ot, length, <<>>, "slice bounds out of range", 1)
      ELSE R("ok", ot, length, Slice(b, objstart, objstart + length), Nil, 1)

\* the decimal digits of n
RECURSIVE Digits(_)
Digits(n) == IF n < 10 THEN << 48 + n >> ELSE Digits(n \div 10) \o << 48 + (n % 10) >>

\* "blob <declared>\0" and a payload of actual bytes
PayloadOf(actual) == [i \in 1..actual |-> 97 + (i % 26)]
LooseStream(declared, actual) ==
    <<98, 108, 111, 98, 32>> \o Digits(declared) \o <<0>> \o PayloadOf(actual)

\* the payload lengths: with the header, streams below, of and above
\* first_buffer_size bytes
PayloadLens == {0, 3, 1013, 1014, 1015, 1300}

\* by how much the header's length may be above the payload's
Excess == {0, 2}

\* the most bytes the first Read returns, and the later ones
FirstReads == {first_buffer_size, 600, 8, 3}
Chunks == {2000, 200}

ReadObjectFileReads ==
    /\ ret.op = "args" /\ ret.kind = "reads"
    /\ \E sizeonly \in BOOLEAN :
         \E r \in {readObjectFileReads(ret.content, ret.first, ret.chunk, ret.eofWithLast,
                                       sizeonly)} :
           ret' = [op |-> "readObjectFile", content |-> ret.content,
                   declared |-> ret.declared, actual |-> ret.actual,
                   first |-> ret.first, chunk |-> ret.chunk,
                   eofWithLast |-> ret.eofWithLast, sizeonly |-> sizeonly,
                   out |-> r.out, ot |-> r.ot, length |-> r.length, data |-> r.data,
                   err |-> r.err, zreads |-> r.zreads]
    /\ UNCHANGED <<disk, repos, idx, pooled>>

\* the same file read by readObjectFile as the repository model has it,
\* for the streams that the first Read delivers whole
ReadObjectFileWhole ==
    /\ ret.op = "args" /\ ret.kind = "reads"
    /\ Len(ret.content) < first_buffer_size
    /\ \E sizeonly \in BOOLEAN :
         \E r \in {readObjectFile([state |-> "file", zlibOk |-> TRUE,
                                   content |-> ret.content], sizeonly)} :
           ret' = [op |-> "readObjectFileWhole", content |-> ret.content,
                   declared |-> ret.declared, actual |-> ret.actual,
                   first |-> first_buffer_size, chunk |-> ret.chunk,
                   eofWithLast |-> ret.eofWithLast, sizeonly |-> sizeonly,
                   out |-> r.out, ot |-> r.ot, length |-> r.length, data |-> r.data,
                   err |-> r.err, zreads |-> r.zreads]
    /\ UNCHANGED <<disk, repos, idx, pooled>>

InitReads ==
    /\ disk = [root |-> "dir", idxs |-> <<>>, loose |-> <<>>]
    /\ repos = NilPtr
    /\ idx = NilPtr
    /\ calls = <<>>
    /\ zlibReaderPool = {}
    /\ zreaders = <<>>
    /\ fds = {}
    /\ \E actual \in PayloadLens, x \in Excess, first \in FirstReads, chunk \in Chunks,
          eofWithLast \in BOOLEAN :
         ret = [op |-> "args", kind |-> "reads",
                content |-> LooseStream(actual + x, actual),
                declared |-> actual + x, actual |-> actual,
                first |-> first, chunk |-> chunk, eofWithLast |-> eofWithLast]

NextReads == ReadObjectFileReads \/ ReadObjectFileWhole

SpecReads == InitReads /\ [][NextReads]_vars

(***************************************************************************)
(* Claims about reading a loose object in pieces.                          *)
(***************************************************************************)
\* the first Read returned all it could: the whole stream, or a full buffer
FirstReadFull == ret.first >= Min(first_buffer_size, Len(ret.content))

\* C24: for every loose object with a well-formed header
\* "<type> <decimal length>\0" and every way the inflater splits the stream
\* into reads (a first read of fewer than 1024 bytes, a total below or
\* above 1024 among them), readObjectFile with size_only = false returns as
\* data exactly the <length> payload bytes after the NUL and as length the
\* decimal value of the header; an end of stream reported with the last
\* bytes is success.
C24_LooseDataIsPayload ==
    (ret.op = "readObjectFile" /\ ~ret.sizeonly /\ ret.declared = ret.actual) =>
        /\ ret.out = "ok"
        /\ ret.err = Nil
        /\ ret.length = ret.declared
        /\ ret.data = PayloadOf(ret.actual)

\* the same when the first Read returns the whole stream or a full buffer
C24_LooseDataIsPayloadFullFirstRead ==
    (/\ ret.op = "readObjectFile" /\ ~ret.sizeonly /\ ret.declared = ret.actual
     /\ FirstReadFull) =>
        /\ ret.out = "ok"
        /\ ret.err = Nil
        /\ ret.length = ret.declared
        /\ ret.data = PayloadOf(ret.actual)

\* readObjectFile of the repository model is readObjectFileReads with a
\* first Read that delivers the whole stream
C24_WholeIsFullFirstRead ==
    ret.op = "readObjectFileWhole" =>
        LET r == readObjectFileReads(ret.content, first_buffer_size, ret.chunk,
                                     ret.eofWithLast, ret.sizeonly)
        IN /\ r.out = ret.out /\ r.ot = ret.ot /\ r.length = ret.length
           /\ r.data = ret.data /\ r.err = ret.err
           /\ (r.out # "hangs" => r.zreads = ret.zreads)

\* an object of more than 1024 bytes whose first Read returned 600 bytes:
\* the data returned is not the payload
C24_Witness ==
    /\ ret.op = "readObjectFile"
    /\ ~ret.sizeonly
    /\ ret.declared = ret.actual
    /\ ret.actual = 1300
    /\ ret.first = 600
    /\ ret.out = "ok"
    /\ ret.data # PayloadOf(ret.actual)

\* an object of more than 1024 bytes read in pieces after a full first
\* buffer, the end of the stream coming with the last bytes
C24_WitnessPieces ==
    /\ ret.op = "readObjectFile"
    /\ ~ret.sizeonly
    /\ ret.declared = ret.actual
    /\ ret.actual = 1300
    /\ FirstReadFull
    /\ ret.chunk = 200
    /\ ret.eofWithLast
    /\ ret.zreads = 3
    /\ ret.data = PayloadOf(1300)

\* C28: readObjectFile completes for every loose object stream: when the
\* inflated stream ends before header_length + payload_length bytes have
\* been delivered (the declared length is larger than the payload), the
\* loop that fills the remaining buffer stops and the operation returns an
\* error; it does not read forever.
C28_ShortStreamIsError ==
    ret.op = "readObjectFile" =>
        /\ ret.out # "hangs"
        /\ (~ret.sizeonly /\ ret.declared > ret.actual) => ret.out = "err"

\* a stream of more than 1024 bytes that ends 2 bytes before the declared
\* length, read after a full first buffer: the loop is still reading
C28_Witness ==
    /\ ret.op = "readObjectFile"
    /\ ~ret.sizeonly
    /\ ret.actual = 1300
    /\ ret.declared = 1302
    /\ FirstReadFull
    /\ ret.out = "hangs"

\* what becomes of a stream shorter than declared: the loop never ends
\* when it is entered with bytes to fill, make panics when the declared
\* total is below first_buffer_size, and zeros are returned for the missing
\* bytes when it is exactly first_buffer_size
C28_ShortStreamOutcomes ==
    (ret.op = "readObjectFile" /\ ~ret.sizeonly /\ ret.declared > ret.actual
       /\ FirstReadFull) =>
        LET total == Len(ret.content) + (ret.declared - ret.actual) IN
        /\ total > first_buffer_size => ret.out = "hangs"
        /\ total < first_buffer_size => ret.out = "panic"
        /\ total = first_buffer_size => ret.out = "ok"

(***************************************************************************)
(* The files the calls open and close.  calls is the stack of the          *)
(* functions that have been entered and have not returned; each frame      *)
(* holds the descriptors its deferred Close calls will close.  What a      *)
(* function finds in its files is taken from the operators above; the      *)
(* steps here are its os.Open calls, its calls and its returns.            *)
(***************************************************************************)
\* the descriptors a process may have open at a time (RLIMIT_NOFILE)
MaxOpenFiles == 4

\* a frame: fn the function, pc where it is, arg and i its arguments, held
\* the descriptors it closes when it returns, emfile whether os.Open failed
\* for lack of descriptors, n the files opened by it and its callees
Frame(fn, pc, arg, i) ==
    [fn |-> fn, pc |-> pc, arg |-> arg, i |-> i, held |-> {}, emfile |-> FALSE, n |-> 0]

Top == calls[Len(calls)]
Below == calls[Len(calls) - 1]

\* the stack with its top frame replaced, and popped with the frame below
\* replaced
WithTop(f) == [calls EXCEPT ![Len(calls)] = f]
PopInto(f) == [SubSeq(calls, 1, Len(calls) - 1) EXCEPT ![Len(calls) - 1] = f]

\* the lowest descriptor not in use
FreeFd == CHOOSE n \in 3..(3 + Cardinality(fds)) :
              /\ n \notin {f.fd : f \in fds}
              /\ \A m \in 3..(n - 1) : m \in {f.fd : f \in fds}

\* deferred Close calls that run only when the function returns no error
closeDeferred_OnSuccessOnly(open, held, out) ==
    IF out = "ok" THEN {f \in open : f.fd \notin held} ELSE open

\* the deferred Close calls of a returning function, on every way out
closeDeferred(open, held, out) == {f \in open : f.fd \notin held}

\* the pack of the files model: a commit, a delta on it, a delta on the
\* delta, a delta on itself, a delta on the first byte of the file, a
\* delta on an offset before the file, and an id delta
FilesPack ==
    PackFile(<< [raw |-> ObjectCommit, data |-> [i \in 1..17 |-> 100 + i], back |-> "none"],
                [raw |-> OffsetDelta, data |-> DeltaCopyInsert, back |-> "prev"],
                [raw |-> OffsetDelta, data |-> <<4, 2, 144, 2>>, back |-> "prev"],
                [raw |-> OffsetDelta, data |-> DeltaCopyInsert, back |-> "self"],
                [raw |-> OffsetDelta, data |-> DeltaCopyInsert, back |-> "start"],
                [raw |-> OffsetDelta, data |-> DeltaCopyInsert, back |-> "far"],
                [raw |-> IdDelta, data |-> DeltaCopyInsert, back |-> "none"] >>)

FilesOff(k) == <<0, 0, 0, FilesPack.starts[k]>>

\* an index with the second and third identifier at the objects j and k
FilesIdx(j, k, variant) ==
    [p |-> <<2, 3>>, offs |-> <<FilesOff(j), FilesOff(k)>>, variant |-> variant]

\* the index files of the repositories: none, one, and a good one before
\* one that readIdxFile gives up on at each of its exits
FilesIdxSeqs ==
    { <<>> }
      \cup { << FilesIdx(j, j + 1, "ok") >> : j \in {1, 3, 5} }
      \cup { << FilesIdx(7, 1, "ok") >> }
      \cup { << FilesIdx(1, 2, "ok"), FilesIdx(3, 4, v) >> :
               v \in {"openerr", "badmagic", "truncated", "nopack", "shortpack", "notpack"} }

\* what op returns for oid, from the operators of the repository model
OpResult(op, oid) ==
    CASE op = "getRawObject" -> getRawObject(disk, repos, oid)
      [] op = "Type" -> Type(disk, repos, oid)
      [] op = "ObjectSize" -> ObjectSize(disk, repos, oid)

\* OpenRepository(path) is entered
BeginOpenRepository ==
    /\ calls = <<>>
    /\ ret = NoCall
    /\ \E path \in Paths :
         calls' = << Frame("OpenRepository", "loop", path, 1) >>
    /\ UNCHANGED <<disk, repos, idx, ret, zlibReaderPool, zreaders, fds>>

\* the loop of OpenRepository calls readIdxFile for the next index file
OpenRepositoryReadNext ==
    /\ calls # <<>>
    /\ Top.fn = "OpenRepository" /\ Top.pc = "loop"
    /\ PathKind(disk, Top.arg) = "dir"
    /\ Top.i <= Len(disk.idxs)
    /\ calls' = Append(calls, Frame("readIdxFile", "start", Top.arg, Top.i))
    /\ UNCHANGED <<disk, repos, idx, ret, zlibReaderPool, zreaders, fds>>

\* os.Open(path) of readIdxFile
ReadIdxFileOpen ==
    /\ calls # <<>>
    /\ Top.fn = "readIdxFile" /\ Top.pc = "start"
    /\ IF disk.idxs[Top.i].variant = "openerr"
       THEN /\ calls' = WithTop([Top EXCEPT !.pc = "return"])
            /\ fds' = fds
       ELSE /\ calls' = WithTop([Top EXCEPT !.pc = "mapped", !.held = @ \cup {FreeFd},
                                            !.n = @ + 1])
            /\ fds' = fds \cup {[fd |-> FreeFd, path |-> disk.idxs[Top.i].path]}
    /\ UNCHANGED <<disk, repos, idx, ret, zlibReaderPool, zreaders>>

\* the index is mapped and its tables are cut out; then os.Open(packpath)
ReadIdxFileOpenPack ==
    /\ calls # <<>>
    /\ Top.fn = "readIdxFile" /\ Top.pc = "mapped"
    /\ \E r \in {readIdxFile(disk.idxs[Top.i])} :
         IF r.out = "panic" \/ r.err \in {"mmap", "Not version 2 index file", "open pack"}
         THEN /\ calls' = WithTop([Top EXCEPT !.pc = "return"])
              /\ fds' = fds
         ELSE /\ calls' = WithTop([Top EXCEPT !.pc = "return", !.held = @ \cup {FreeFd},
                                              !.n = @ + 1])
              /\ fds' = fds \cup {[fd |-> FreeFd, path |-> packpathOf(disk.idxs[Top.i].path)]}
    /\ UNCHANGED <<disk, repos, idx, ret, zlibReaderPool, zreaders>>

\* readIdxFile returns: its deferred Close calls run
ReadIdxFileReturn ==
    /\ calls # <<>>
    /\ Top.fn = "readIdxFile" /\ Top.pc = "return"
    /\ \E r \in {readIdxFile(disk.idxs[Top.i])} :
         /\ fds' = closeDeferred(fds, Top.held, r.out)
         /\ calls' = PopInto([Below EXCEPT !.n = @ + Top.n,
                                           !.i = IF r.out = "ok" THEN @ + 1 ELSE @,
                                           !.pc = IF r.out = "ok" THEN "loop" ELSE "failed"])
    /\ UNCHANGED <<disk, repos, idx, ret, zlibReaderPool, zreaders>>

\* OpenRepository returns
OpenRepositoryReturn ==
    /\ calls # <<>>
    /\ Top.fn = "OpenRepository"
    /\ \/ Top.pc = "failed"
       \/ PathKind(disk, Top.arg) # "dir"
       \/ Top.i > Len(disk.idxs)
    /\ \E r \in {OpenRepository(disk, Top.arg)} :
         /\ ret' = [op |-> "OpenRepository", arg |-> Top.arg, out |-> r.out, err |-> r.err,
                    opened |-> Top.n]
         /\ repos' = IF r.out = "ok" THEN r.repo ELSE repos
    /\ calls' = <<>>
    /\ UNCHANGED <<disk, idx, zlibReaderPool, zreaders, fds>>

\* getRawObject, Type or ObjectSize is entered: os.Stat, and then the
\* loose reader, or the pack reader at the offset an index gives, or the
\* return of "not found"
BeginLookup ==
    /\ calls = <<>>
    /\ ~repos.nil
    /\ ret # NoCall
    /\ ret.out \notin {"exit", "panic"}
    /\ \E op \in {"getRawObject", "Type", "ObjectSize"}, oid \in Oids :
         \E x \in {OpResult(op, oid)} :
           IF x.loose
           THEN /\ calls' = << Frame(op, "called", oid, 0),
                               Frame("readObjectFile", "start", oid, 0) >>
                /\ ret' = ret
           ELSE IF x.consulted = <<>> \/ x.res.err \in {errObjNotFound, "Object not found"}
           THEN /\ calls' = <<>>
                /\ ret' = [op |-> op, arg |-> oid, out |-> x.res.out, err |-> x.res.err,
                           opened |-> 0]
           ELSE /\ calls' = << Frame(op, "called", oid, 0),
                               Frame("readObjectBytes", "start",
                                     repos.indexfiles[x.consulted[Len(x.consulted)]].packpath,
                                     offsetInt(offsetForSHA(
                                         repos.indexfiles[x.consulted[Len(x.consulted)]],
                                         oid))) >>
                /\ ret' = ret
    /\ UNCHANGED <<disk, repos, idx, zlibReaderPool, zreaders, fds>>

\* os.Open(path) of readObjectFile
ReadObjectFileOpen ==
    /\ calls # <<>>
    /\ Top.fn = "readObjectFile" /\ Top.pc = "start"
    /\ IF LooseAt(disk, Top.arg).state = "file"
       THEN /\ calls' = WithTop([Top EXCEPT !.pc = "return", !.held = @ \cup {FreeFd},
                                            !.n = @ + 1])
            /\ fds' = fds \cup {[fd |-> FreeFd, path |-> <<"objects", Top.arg>>]}
       ELSE /\ calls' = WithTop([Top EXCEPT !.pc = "return"])
            /\ fds' = fds
    /\ UNCHANGED <<disk, repos, idx, ret, zlibReaderPool, zreaders>>

\* readObjectFile returns, unless its read loop never ends
ReadObjectFileReturn ==
    /\ calls # <<>>
    /\ Top.fn = "readObjectFile" /\ Top.pc = "return"
    /\ \E r \in {readObjectFile(LooseAt(disk, Top.arg), Below.fn = "ObjectSize")} :
         /\ r.out # "hangs"
         /\ fds' = closeDeferred(fds, Top.held, r.out)
         /\ calls' = PopInto([Below EXCEPT !.n = @ + Top.n, !.pc = "done"])
    /\ UNCHANGED <<disk, repos, idx, ret, zlibReaderPool, zreaders>>

\* what the call of readObjectBytes in the top frame does after its header
\* is read: it calls itself for a base when the operator's trace has a
\* second offset, or when the base is an offset already on the way
BytesResult(f, sizeonly) == readObjectBytes(PackAt(disk, f.arg), f.i, sizeonly)

BaseOffset(r, offset) == IF Len(r.reads) >= 2 THEN r.reads[2] ELSE offset

\* os.Open(path) of readObjectBytes, the header, and the call for the base
ReadObjectBytesOpen ==
    /\ calls # <<>>
    /\ Top.fn = "readObjectBytes" /\ Top.pc = "start"
    /\ \E r \in {BytesResult(Top, Below.fn = "ObjectSize")} :
         IF ~PackAt(disk, Top.arg).exists
         THEN /\ calls' = WithTop([Top EXCEPT !.pc = "return"])
              /\ fds' = fds
         ELSE IF Cardinality(fds) >= MaxOpenFiles
         THEN /\ calls' = WithTop([Top EXCEPT !.pc = "return", !.emfile = TRUE])
              /\ fds' = fds
         ELSE /\ fds' = fds \cup {[fd |-> FreeFd, path |-> Top.arg]}
              /\ IF Len(r.reads) >= 2 \/ r.out = "diverges"
                 THEN calls' = Append(WithTop([Top EXCEPT !.pc = "called",
                                                          !.held = @ \cup {FreeFd},
                                                          !.n = @ + 1]),
                                      Frame("readObjectBytes", "start", Top.arg,
                                            BaseOffset(r, Top.i)))
                 ELSE calls' = WithTop([Top EXCEPT !.pc = "return",
                                                   !.held = @ \cup {FreeFd}, !.n = @ + 1])
    /\ UNCHANGED <<disk, repos, idx, ret, zlibReaderPool, zreaders>>

\* a call of readObjectBytes that has called itself with its own arguments
\* goes on calling until the stack of the goroutine is used up: the
\* runtime ends the process ("exit")
StackOverflow ==
    /\ Len(calls) >= 3
    /\ Top.fn = "readObjectBytes" /\ Top.pc = "start"
    /\ Below.fn = "readObjectBytes" /\ Below.i = Top.i
    /\ Cardinality(fds) >= MaxOpenFiles
    /\ ret' = [op |-> calls[1].fn, arg |-> calls[1].arg, out |-> "exit",
               err |-> "stack overflow", opened |-> Cardinality(fds)]
    /\ calls' = <<>>
    /\ fds' = {}
    /\ UNCHANGED <<disk, repos, idx, zlibReaderPool, zreaders>>

\* readObjectBytes returns: its deferred file.Close runs
ReadObjectBytesReturn ==
    /\ calls # <<>>
    /\ Top.fn = "readObjectBytes" /\ Top.pc = "return"
    /\ \E r \in {BytesResult(Top, FALSE)} :
         /\ fds' = closeDeferred(fds, Top.held, IF Top.emfile THEN "err" ELSE r.out)
         /\ calls' = PopInto([Below EXCEPT !.n = @ + Top.n, !.emfile = Top.emfile,
                                           !.pc = IF @ = "called" /\ Below.fn = "readObjectBytes"
                                                  THEN "return" ELSE "done"])
    /\ UNCHANGED <<disk, repos, idx, ret, zlibReaderPool, zreaders>>

\* getRawObject, Type or ObjectSize returns
LookupReturn ==
    /\ Len(calls) = 1
    /\ Top.pc = "done"
    /\ \E x \in {OpResult(Top.fn, Top.arg)} :
         ret' = [op |-> Top.fn, arg |-> Top.arg,
                 out |-> IF Top.emfile THEN "err" ELSE x.res.out,
                 err |-> IF Top.emfile THEN "too many open files" ELSE x.res.err,
                 opened |-> Top.n]
    /\ calls' = <<>>
    /\ UNCHANGED <<disk, repos, idx, zlibReaderPool, zreaders, fds>>

InitFiles ==
    /\ \E cs \in FilesIdxSeqs, lf \in LooseFiles(IdCatalogue[2]) :
         disk = [root |-> "dir",
                 idxs |-> [k \in 1..Len(cs) |->
                             IdxFile(k, cs[k].p, cs[k].offs, FilesPack, cs[k].variant)],
                 loose |-> << lf >>]
    /\ repos = NilPtr
    /\ idx = NilPtr
    /\ calls = <<>>
    /\ zlibReaderPool = {}
    /\ zreaders = <<>>
    /\ fds = {}
    /\ ret = NoCall

NextFiles ==
    \/ BeginOpenRepository
    \/ OpenRepositoryReadNext
    \/ ReadIdxFileOpen
    \/ ReadIdxFileOpenPack
    \/ ReadIdxFileReturn
    \/ OpenRepositoryReturn
    \/ BeginLookup
    \/ ReadObjectFileOpen
    \/ ReadObjectFileReturn
    \/ ReadObjectBytesOpen
    \/ StackOverflow
    \/ ReadObjectBytesReturn
    \/ LookupReturn

SpecFiles == InitFiles /\ [][NextFiles]_vars

\* every descriptor that is open belongs to a frame on the stack
HeldOnStack == UNION {calls[k].held : k \in DOMAIN calls}

\* C25: every file opened during OpenRepository, getRawObject, Type or
\* ObjectSize is closed by the time the operation returns, on success and
\* on every error path: a descriptor is open only while the function that
\* opened it is on the stack, each readObjectBytes and readObjectFile
\* frame holds at most one and readIdxFile at most two, and when no
\* operation is in progress no file is open.
C25_FilesClosedOnReturn ==
    /\ \A f \in fds : f.fd \in HeldOnStack
    /\ \A k \in DOMAIN calls :
         Cardinality(calls[k].held) <= (IF calls[k].fn = "readIdxFile" THEN 2
                                        ELSE IF calls[k].fn \in {"readObjectBytes", "readObjectFile"}
                                        THEN 1 ELSE 0)
    /\ calls = <<>> => fds = {}

\* a read through a chain of two deltas has returned: three pack files
\* were opened, and none is open
C25_Witness ==
    /\ calls = <<>>
    /\ ret.op = "getRawObject" /\ ret.out = "ok" /\ ret.opened = 3
    /\ fds = {}

\* OpenRepository has returned the error of the second index file after
\* opening the first index, its pack and the second index
C25_WitnessIndexError ==
    /\ calls = <<>>
    /\ ret.op = "OpenRepository" /\ ret.out = "err" /\ ret.opened = 3
    /\ fds = {}

\* a read of a delta on itself has returned "too many open files" after
\* opening as many pack files as the process may hold
C25_WitnessErrorPath ==
    /\ calls = <<>>
    /\ ret.op \in {"getRawObject", "Type", "ObjectSize"}
    /\ ret.err = "too many open files" /\ ret.opened = MaxOpenFiles
    /\ fds = {}

\* a loose object file was opened and the read has returned
C25_WitnessLoose ==
    /\ calls = <<>>
    /\ ret.op = "Type" /\ ret.opened = 1 /\ ret.out = "err"
    /\ fds = {}

(***************************************************************************)
(* The recursion of readObjectBytes.                                       *)
(***************************************************************************)
\* every offset delta of objs has an object before it as its base
WellFormedPack(objs) ==
    \A k \in DOMAIN objs : /\ objs[k].back \in {"none", "prev"}
                           /\ objs[k].back = "prev" => k > 1

\* the deltas between the object k and the object its chain ends in
RECURSIVE ChainDepth(_, _)
ChainDepth(objs, k) ==
    IF k > 1 /\ objs[k].back = "prev" THEN 1 + ChainDepth(objs, k - 1) ELSE 0

\* C26: for every pack file content and every starting offset
\* readObjectBytes completes, returning a result or an error after
\* finitely many recursive calls: no call repeats inside itself.
C26_ReadObjectBytesCompletes ==
    ret.op = "readObjectBytes" => ret.out # "diverges"

\* readObjectBytes was called at offset 0 of a pack, whose first byte 'P'
\* has the raw type 0x50: the base offset stays 0 and the call repeats
C26_Witness ==
    /\ ret.op = "readObjectBytes"
    /\ ret.offset = 0
    /\ rawType(BufAt(CalledPack.bytes, 0, 0)) = 80
    /\ ret.out = "diverges"

\* readObjectBytes was called at an offset delta whose back-reference is 0
C26_WitnessSelf ==
    /\ ret.op = "readObjectBytes"
    /\ \E k \in DOMAIN CalledPack.objs :
         /\ CalledPack.objs[k].back = "self"
         /\ ret.offset = CalledPack.starts[k]
    /\ ret.reads = << ret.offset >>
    /\ ret.out = "diverges"

\* An offset delta whose back-reference exceeds its offset ends in the
\* error of the Seek to the negative offset, after one recursive call.
C26_BackBeforeFileCompletes ==
    ret.op = "readObjectBytes" =>
      \A k \in DOMAIN CalledPack.objs :
        (CalledPack.objs[k].back = "far" /\ ret.offset = CalledPack.starts[k]) =>
          /\ ret.out = "err" /\ ret.err = "seek"
          /\ ret.reads = << ret.offset, ret.offset - 200 >>

\* On a well-formed pack a read at the start of an object completes; the
\* offsets read go strictly down and there is one call for the object and
\* one for each delta of its chain.
C26_WellFormedDepth ==
    (ret.op = "readObjectBytes" /\ WellFormedPack(CalledPack.objs)) =>
      \A k \in DOMAIN CalledPack.objs :
        ret.offset = CalledPack.starts[k] =>
          /\ ret.out # "diverges"
          /\ Len(ret.reads) = ChainDepth(CalledPack.objs, k) + 1
          /\ \A j \in 1..(Len(ret.reads) - 1) : ret.reads[j + 1] < ret.reads[j]

\* a chain of two deltas on a well-formed pack was read with three calls
C26_WitnessChain ==
    /\ ret.op = "readObjectBytes" /\ WellFormedPack(CalledPack.objs)
    /\ Len(ret.reads) = 3 /\ ret.out = "ok"

\* Step by step, a call that repeats inside itself goes on until os.Open
\* fails for lack of descriptors or the stack is used up: the stack holds
\* the same call twice.
C26_RepeatedCallOnStack ==
    /\ Len(calls) >= 3
    /\ Top.fn = "readObjectBytes" /\ Below.fn = "readObjectBytes"
    /\ Top.i = Below.i /\ Top.arg = Below.arg
    /\ Cardinality(fds) = MaxOpenFiles

\* the run of a repeating call ended with the process
C26_WitnessExit ==
    /\ calls = <<>>
    /\ ret.op \in {"getRawObject", "Type", "ObjectSize"}
    /\ ret.out = "exit"

(***************************************************************************)
(* The index reader that reads the whole file into a map, next to the      *)
(* reader that maps the file and searches it.                              *)
(***************************************************************************)
\* readIdxFile of the map variant on the index file f: offsetValues is the
\* map, given as the function from every identifier to the value the map
\* holds for it, or to 0 where it holds none
readIdxFileMap(f) ==
    LET m == IdxBytesOf(f)
        fail(e) == [out |-> "err", err |-> e, idx |-> NilPtr]
        panic == [out |-> "panic", err |-> "index out of range", idx |-> NilPtr]
    IN
    IF f.variant = "openerr" THEN fail("open")
    ELSE IF ~HasPrefix(m, IdxMagic) THEN fail("Not version 2 index file")
    ELSE IF Len(m) < 8 + 256 * 4 THEN panic
    ELSE
      LET fanout == [i \in 0..255 |-> BigEndianUint32(m, 8 + i * 4)]
          numObjects == fanout[255]
          idsStart == 8 + 256 * 4
          ids == [i \in 0..(numObjects - 1) |->
                    Slice(m, idsStart + 20 * i, idsStart + 20 * i + 20)]
          \* pos after the identifiers and "skip crc32"
          pos8 == idsStart + 20 * numObjects + 4 * numObjects
          excessLen == Len(m) - 258 * 4 - 28 * numObjects - 40
          count8 == IF excessLen > 0 THEN excessLen \div 8 ELSE 0
          offsetValues8 == [i \in 0..(count8 - 1) |-> Slice(m, pos8 + 8 * i, pos8 + 8 * i + 8)]
          offStart == 258 * 4 + 24 * numObjects
          offset(i) == Slice(m, offStart + 4 * i, offStart + 4 * i + 4)
          offset31bits(i) ==
              BigEndianUint32(<<offset(i)[1] % 128, offset(i)[2], offset(i)[3], offset(i)[4]>>, 0)
          value(i) == IF offset(i)[1] >= 128 THEN offsetValues8[offset31bits(i)]
                      ELSE ZeroExtend(offset(i))
          last(id) == CHOOSE i \in 0..(numObjects - 1) :
                         /\ ids[i] = id
                         /\ \A j \in (i + 1)..(numObjects - 1) : ids[j] # id
      IN
      IF \/ idsStart + 20 * numObjects > Len(m)
         \/ pos8 + 8 * count8 > Len(m)
         \/ offStart + 4 * numObjects > Len(m)
         \/ \E i \in 0..(numObjects - 1) :
              offset(i)[1] >= 128 /\ offset31bits(i) >= count8
      THEN panic
      ELSE IF ~f.pack.exists THEN fail("open pack")
      ELSE IF Len(f.pack.bytes) = 0 THEN fail("EOF")
      ELSE IF ~HasPrefix(Slice(f.pack.bytes, 0, Min(8, Len(f.pack.bytes))), PackMagic)
           THEN fail("Pack file does not start with 'PACK'")
      ELSE [out |-> "ok", err |-> Nil,
            idx |-> [nil |-> FALSE, packpath |-> packpathOf(f.path),
                     offsetValues |-> [id \in Ids |->
                                         IF \E i \in 0..(numObjects - 1) : ids[i] = id
                                         THEN value(last(id)) ELSE Zero64]]]

\* both readers read the index file k
ReadIdxFileBoth ==
    /\ ret = NoCall
    /\ \E k \in 1..Len(disk.idxs) :
        \E r \in {readIdxFile(disk.idxs[k])}, o \in {readIdxFileMap(disk.idxs[k])} :
          /\ ret' = [op |-> "readIdxFile", file |-> k, out |-> r.out, err |-> r.err,
                     mapout |-> o.out, maperr |-> o.err]
          /\ idx' = [nil |-> r.out # "ok" \/ o.out # "ok", mmap |-> r.idx, map |-> o.idx]
    /\ UNCHANGED <<disk, repos, pooled>>

\* idx.offsetForSHA(target) on the one index, offsetValues[target] on the
\* other
OffsetForBoth ==
    /\ ~idx.nil
    /\ ret.op = "readIdxFile"
    /\ \E target \in Ids :
        \E r \in {offsetForSHAFull(idx.mmap, target)} :
          ret' = [op |-> "offsetForSHA", file |-> ret.file, target |-> target, out |-> r.out,
                  offset |-> r.offset, mapped |-> idx.map.offsetValues[target]]
    /\ UNCHANGED <<disk, repos, idx, pooled>>

NextIdxBoth == ReadIdxFileBoth \/ OffsetForBoth

SpecIdxBoth == InitIdx /\ [][NextIdxBoth]_vars

\* the 32-bit entry stored for target in the file looked up, if any
EntryOf(f, target) == {f.offs[k] : k \in {j \in 1..Len(f.ids) : f.ids[j] = target}}

\* C27: on a well-formed version-2 index the two readers agree for every
\* identifier: offsetForSHA(id) of the mapped file equals offsetValues[id]
\* of the map (0 when id is absent), entries resolved through the 64-bit
\* table included.
C27_IndexReadersAgree ==
    (ret.op = "offsetForSHA" /\ WellFormedIdx(disk.idxs[ret.file]) /\ ret.out = "ok") =>
       ret.offset = ret.mapped

\* an identifier whose entry has the high bit set was looked up in both
C27_Witness ==
    /\ ret.op = "offsetForSHA" /\ WellFormedIdx(disk.idxs[ret.file]) /\ ret.out = "ok"
    /\ EntryOf(disk.idxs[ret.file], ret.target) = { <<128, 0, 0, 1>> }
    /\ ret.offset = Offset8Slots[2]
    /\ ret.mapped # ret.offset

\* The readers agree on every identifier that is absent or whose entry
\* holds a 31-bit offset.
C27_IndexReadersAgreeBelowHighBit ==
    (ret.op = "offsetForSHA" /\ WellFormedIdx(disk.idxs[ret.file]) /\ ret.out = "ok"
        /\ \A e \in EntryOf(disk.idxs[ret.file], ret.target) : e[1] < 128) =>
       ret.offset = ret.mapped

\* For an entry with the high bit set the map holds the eight bytes found
\* where the 32-bit offsets start, 4 * numObjects bytes before the 64-bit
\* table.
C27_MapReadsOffsetTable ==
    (ret.op = "offsetForSHA" /\ WellFormedIdx(disk.idxs[ret.file]) /\ ret.out = "ok") =>
       \A e \in EntryOf(disk.idxs[ret.file], ret.target) :
         e[1] >= 128 =>
           ret.mapped = Slice(Flatten(disk.idxs[ret.file].offs) \o Flatten(disk.idxs[ret.file].off8),
                              8 * e[4], 8 * e[4] + 8)

\* an absent identifier and a stored 31-bit offset were looked up in both
C27_WitnessAgree ==
    /\ ret.op = "offsetForSHA" /\ WellFormedIdx(disk.idxs[ret.file]) /\ ret.out = "ok"
    /\ EntryOf(disk.idxs[ret.file], ret.target) = { <<0, 0, 0, 12>> }
    /\ ret.offset = ret.mapped
    /\ Len(disk.idxs[ret.file].off8) > 0

(***************************************************************************)
(* The recursion of LookupReference.                                       *)
(***************************************************************************)
\* the name reached from name after k symbolic references, or <<>> when
\* the chain has ended in a file that is none, or in no file
RECURSIVE Hops(_, _)
Hops(name, k) ==
    IF k = 0 \/ name = <<>> THEN name
    ELSE LET fs == {j \in 1..Len(disk.files) :
                      disk.files[j].path = name /\ disk.files[j].kind = "symref"}
         IN IF fs = {} THEN <<>>
            ELSE Hops(disk.files[CHOOSE j \in fs : TRUE].target, k - 1)

\* with files under two names (HEAD and m), a chain that is still going
\* after three symbolic references has come back to a name it left
CyclicFrom(name) == Hops(name, 3) # <<>>

\* C29: LookupReference(name) terminates for every content of the
\* reference files: a chain of symbolic references is followed finitely
\* many times, cyclic chains included, and then an error is returned.
C29_LookupReferenceTerminates ==
    ret.op = "LookupReference" =>
      /\ ret.out \in {"ok", "err"}
      /\ CyclicFrom(ret.name) => ret.out = "err"

\* HEAD holds "ref: HEAD" and HEAD was looked up: the call repeats itself
C29_Witness ==
    /\ ret.op = "LookupReference" /\ ret.name = NameHEAD
    /\ Hops(NameHEAD, 1) = NameHEAD
    /\ ret.out = "diverges"

\* HEAD holds "ref: m", m holds "ref: HEAD", and m was looked up
C29_WitnessTwoFiles ==
    /\ ret.op = "LookupReference" /\ ret.name = NameM
    /\ Hops(NameM, 1) = NameHEAD /\ Hops(NameM, 2) = NameM
    /\ ret.out = "diverges"

\* The call returns exactly when the chain from name is not cyclic.
C29_TerminatesIffAcyclic ==
    ret.op = "LookupReference" =>
      (ret.out \in {"ok", "err"} <=> ~CyclicFrom(ret.name))

\* a chain of two symbolic references that ends was followed to its end
C29_WitnessChain ==
    /\ ret.op = "LookupReference" /\ ret.name = NameHEAD
    /\ Hops(NameHEAD, 2) = NameT /\ ~CyclicFrom(NameHEAD)
    /\ ret.out \in {"ok", "err"}

====
